---- MODULE Spec2Model ----
(***************************************************************************)
(* A model of the puresnmp client facade (src/puresnmp/api/raw.py): the    *)
(* walk engine, request/response correlation, the reconfigure scope and    *)
(* the request operations; and of the user-based security model            *)
(* (src/puresnmp/security/usm.py).                                         *)
(*                                                                         *)
(* Data representation                                                     *)
(*   ObjectIdentifier  a sequence of naturals, e.g. <<1, 2>>               *)
(*   VarBind           a record [oid |-> ..., value |-> ...]               *)
(*   value             a string: "a", "b" stand for typed SNMP values,     *)
(*                     "EndOfMibView", "NoSuchObject", "NoSuchInstance"    *)
(*                     for the exceptional markers, "untyped" for a Python *)
(*                     object that is no x690 Type                         *)
(*   dict              a sequence of <<key, value>> pairs in insertion     *)
(*                     order (Python dicts keep insertion order)           *)
(*   bytes             a tuple: <<>> is b"", the serialization of an       *)
(*                     object is the tuple of its tag and its parts        *)
(***************************************************************************)
EXTENDS Integers, Sequences, FiniteSets, TLC

VARIABLES
    request_id_counter, \* util.get_request_id's process-wide counter
    mib,                \* the device: the set of OIDs its MIB holds
    agent,              \* the device: "good" (RFC conformant) or "any"
    w_pc,               \* multiwalk: position of the generator
    w_oids,             \* multiwalk: parameter oids (the user roots)
    w_fetcher,          \* multiwalk: "getnext" | "bulk" | "custom"
    w_errors,           \* multiwalk: parameter errors
    w_bulk,             \* bulkwalk: bulk_size closed over by the fetcher
    w_probes,           \* multiwalk: OIDs of the fetch issued last
    w_unfinished,       \* multiwalk: local unfinished_oids
    w_yielded,          \* multiwalk: local set yielded
    w_rest,             \* multiwalk: what the running deduped_varbinds generator has not looked at
    w_pending,          \* multiwalk: what the running deduped_varbinds generator still yields
    w_out,              \* the varbinds the consumer has received, in order
    w_skipped,          \* deduped_varbinds: why varbinds were skipped so far (its LOG.debug)
    w_nfetch,           \* number of fetches issued
    w_exc,              \* exception that left the generator ("" if none)
    config,             \* Client.config: the current ClientConfig
    mpm,                \* Client.mpm: the message processing model object
    lcds,               \* the heap of LCD dicts: identity -> contents
    scopes,             \* the reconfigure scopes that are open: their frames
    call,               \* the request awaiting the transport (NoCall when none)
    done,               \* the request that ended last, with its outcome
    event,              \* what reconfigure did in the last step
    ncalls,             \* number of requests started
    nscopes,            \* number of reconfigure scopes entered
    local_config,       \* UserSecurityModel.local_config: engine id -> boots and time
    u_pc,               \* USM: "idle" | "generated" | "received" | "processed" |
                        \*      "discovering" | "discovered"
    u_out,              \* USM: the last generate_request_message, with its outcome
    u_wire,             \* USM: the message handed to process_incoming_message
    u_in,               \* USM: the last process_incoming_message, with its outcome
    tasks,              \* the frames of _send of the tasks that share the client
    l_listening,        \* trap listener: register_trap_callback has been called
    l_received,         \* trap listener: the datagrams handed to decode, in order
    l_scheduled,        \* trap listener: the callbacks scheduled, in order
    l_errors,           \* trap listener: the exceptions that left decode, in order
    t_call,             \* table / bulktable: the call that is running or ran last
    t_result            \* table / bulktable: what the call returned

walkVars == <<w_pc, w_oids, w_fetcher, w_errors, w_bulk, w_probes,
              w_unfinished, w_yielded, w_rest, w_pending, w_out, w_skipped,
              w_nfetch, w_exc>>
deviceVars == <<mib, agent>>
clientVars == <<config, mpm, lcds, scopes, call, done, event, ncalls, nscopes>>
usmVars == <<local_config, u_pc, u_out, u_wire, u_in>>
taskVars == <<tasks>>
trapVars == <<l_listening, l_received, l_scheduled, l_errors>>
tableVars == <<t_call, t_result>>
vars == <<request_id_counter, deviceVars, walkVars, clientVars, usmVars, taskVars,
          trapVars, tableVars>>

-----------------------------------------------------------------------------
(* Bounds of the model *)

\* longest list of roots handed to multiwalk
MaxRoots == 2
\* longest varbind list an arbitrary device or fetcher answers with
MaxResp == 2
\* largest bulk_size
MaxBulk == 2
\* fetches after which an arbitrary (non conformant) device is no longer asked
MaxFetches == 3

\* The OIDs of the model: two subtrees, their leaves
OidUniverse == {<<1>>, <<2>>, <<1, 1>>, <<1, 2>>, <<2, 1>>, <<2, 2>>}

TypedValues == {"a", "b"}
EndOfMibView == "EndOfMibView"
NoSuchObject == "NoSuchObject"
NoSuchInstance == "NoSuchInstance"

VarBind(oid, value) == [oid |-> oid, value |-> value]

SeqsUpTo(S, n) == UNION {[1..k -> S] : k \in 0..n}

-----------------------------------------------------------------------------
(* x690.types.ObjectIdentifier *)

\* a < b: the order of the node tuples
RECURSIVE OidLess(_, _)
OidLess(a, b) ==
    IF a = <<>> THEN b # <<>>
    ELSE IF b = <<>> THEN FALSE
    ELSE IF Head(a) # Head(b) THEN Head(a) < Head(b)
    ELSE OidLess(Tail(a), Tail(b))

\* child in parent, the prefix test: parent's nodes are a prefix of child's
\* and parent is not child itself
Contains(parent, child) ==
    /\ Len(parent) < Len(child)
    /\ SubSeq(child, 1, Len(parent)) = parent

-----------------------------------------------------------------------------
(* Python containers *)

Last(s) == s[Len(s)]

\* d[k] = v on a dict: a known key keeps its position
DictPut(d, k, v) ==
    IF \E i \in DOMAIN d : d[i][1] = k
    THEN [i \in DOMAIN d |-> IF d[i][1] = k THEN <<k, v>> ELSE d[i]]
    ELSE Append(d, <<k, v>>)

\* {oid: value for oid, value in varbinds}
RECURSIVE DictOfVarBinds(_, _)
DictOfVarBinds(varbinds, d) ==
    IF varbinds = <<>> THEN d
    ELSE DictOfVarBinds(Tail(varbinds),
                        DictPut(d, Head(varbinds).oid, Head(varbinds).value))

\* varbinds[i::n] for the 1-based position i
Stride(varbinds, i, n) ==
    LET cnt == IF Len(varbinds) < i THEN 0 ELSE ((Len(varbinds) - i) \div n) + 1
    IN  [k \in 1..cnt |-> varbinds[i + (k - 1) * n]]

\* a loop that does not stop at EndOfMibView
KeepEndOfMibView(varbinds) == varbinds

\* the varbinds before the first one whose value is EndOfMibView
\* (for ...: if isinstance(value, EndOfMibView): break)
RECURSIVE UntilEndOfMibView(_)
UntilEndOfMibView(varbinds) ==
    IF varbinds = <<>> \/ Head(varbinds).value = EndOfMibView THEN <<>>
    ELSE <<Head(varbinds)>> \o UntilEndOfMibView(Tail(varbinds))

RECURSIVE Flatten(_)
Flatten(ss) == IF ss = <<>> THEN <<>> ELSE Head(ss) \o Flatten(Tail(ss))

\* a < b for two lists of varbinds: Python's list order, element by element
RECURSIVE GroupLess(_, _)
GroupLess(a, b) ==
    IF a = <<>> THEN b # <<>>
    ELSE IF b = <<>> THEN FALSE
    ELSE IF Head(a).oid # Head(b).oid THEN OidLess(Head(a).oid, Head(b).oid)
    ELSE GroupLess(Tail(a), Tail(b))

\* sorted() of a list of varbind lists: stable, x goes before the first
\* element greater than x
RECURSIVE InsertGroup(_, _)
InsertGroup(x, s) ==
    IF s = <<>> THEN <<x>>
    ELSE IF GroupLess(x, Head(s)) THEN <<x>> \o s
    ELSE <<Head(s)>> \o InsertGroup(x, Tail(s))

RECURSIVE SortedGroups(_)
SortedGroups(s) ==
    IF s = <<>> THEN <<>>
    ELSE InsertGroup(Last(s), SortedGroups(SubSeq(s, 1, Len(s) - 1)))

\* sorted() of dict items <<key, value>> with distinct OID keys
RECURSIVE InsertItem(_, _)
InsertItem(x, s) ==
    IF s = <<>> THEN <<x>>
    ELSE IF OidLess(x[1], Head(s)[1]) THEN <<x>> \o s
    ELSE <<Head(s)>> \o InsertItem(x, Tail(s))

RECURSIVE SortedItems(_)
SortedItems(s) ==
    IF s = <<>> THEN <<>>
    ELSE InsertItem(Last(s), SortedItems(SubSeq(s, 1, Len(s) - 1)))

\* the elements of s that satisfy the test given as the set of their positions
RECURSIVE SelectAt(_, _, _)
SelectAt(s, keep, i) ==
    IF i > Len(s) THEN <<>>
    ELSE (IF i \in keep THEN <<s[i]>> ELSE <<>>) \o SelectAt(s, keep, i + 1)

-----------------------------------------------------------------------------
(* puresnmp.util: the helpers raw.py imports *)

\* request ids are 31-bit non-negative integers
MaxRequestId == 2147483647

\* get_request_id(): the value the next call returns (the counter wrapped into
\* 31 bits); the call stores it in the counter
get_request_id(counter) == IF counter >= MaxRequestId THEN 0 ELSE counter + 1

\* validate_response_id(request_id, response_id): TRUE when it raises
validate_response_id(request_id, response_id) == request_id # response_id

\* group_varbinds(varbinds, effective_roots, user_roots): the varbinds of a
\* response, position i of each repetition going to probe i, as a dict keyed by
\* the user root that contains the probe, the first such root of user_roots
\* when a root is listed twice or lies below another one (by the probe itself
\* when there are no user_roots, on the first fetch)
RECURSIVE RekeyByUserRoot(_, _, _)
RekeyByUserRoot(results, user_roots, acc) ==
    IF results = <<>> THEN acc
    ELSE LET key == Head(results)[1]
             containment == {i \in DOMAIN user_roots : Contains(user_roots[i], key)}
         IN  IF containment = {}
             THEN RekeyByUserRoot(Tail(results), user_roots, acc)
             ELSE LET first == CHOOSE i \in containment : \A j \in containment : i <= j
                  IN  RekeyByUserRoot(Tail(results), user_roots,
                                      DictPut(acc, user_roots[first], Head(results)[2]))

RECURSIVE GroupByStride(_, _, _, _)
GroupByStride(varbinds, effective_roots, i, acc) ==
    IF i > Len(effective_roots) THEN acc
    ELSE GroupByStride(varbinds, effective_roots, i + 1,
                       DictPut(acc, effective_roots[i],
                               Stride(varbinds, i, Len(effective_roots))))

group_varbinds(varbinds, effective_roots, user_roots) ==
    LET results == GroupByStride(varbinds, effective_roots, 1, <<>>)
    IN  IF user_roots = <<>> THEN results
        ELSE RekeyByUserRoot(results, user_roots, <<>>)

\* get_unfinished_walk_oids(grouped_oids): per root with a non-empty group the
\* last varbind received, kept when its OID is still below the root; a list of
\* <<root, varbind>> sorted by root
get_unfinished_walk_oids(grouped_oids) ==
    LET keep == {i \in DOMAIN grouped_oids :
                    /\ grouped_oids[i][2] # <<>>
                    /\ Contains(grouped_oids[i][1], Last(grouped_oids[i][2]).oid)}
        items == [i \in DOMAIN grouped_oids |->
                    <<grouped_oids[i][1],
                      IF grouped_oids[i][2] = <<>> THEN <<>>
                      ELSE Last(grouped_oids[i][2])>>]
    IN  SortedItems(SelectAt(items, keep, 1))

-----------------------------------------------------------------------------
(* raw.py: deduped_varbinds *)

RECURSIVE DedupFrom(_, _, _)
DedupFrom(varbinds, requested_oids, yielded) ==
    IF varbinds = <<>> THEN <<>>
    ELSE LET varbind == Head(varbinds)
             containment == \E i \in DOMAIN requested_oids :
                                Contains(requested_oids[i], varbind.oid)
         IN  IF ~containment \/ varbind.oid \in yielded
             THEN DedupFrom(Tail(varbinds), requested_oids, yielded)
             ELSE <<varbind>>
                  \o DedupFrom(Tail(varbinds), requested_oids,
                               yielded \cup {varbind.oid})

\* `for var in sorted(grouped_oids.values()): for varbind in var`: the
\* varbinds in the order deduped_varbinds looks at them
SortedVarbinds(grouped_oids) ==
    LET values == [i \in DOMAIN grouped_oids |-> grouped_oids[i][2]]
    IN  Flatten(SortedGroups(values))

\* deduped_varbinds run over every varbind without its test `varbind.oid in yielded`
RECURSIVE DedupNextRepeating(_, _, _)
DedupNextRepeating(varbinds, requested_oids, yielded) ==
    IF varbinds = <<>> THEN [yield |-> <<>>, rest |-> <<>>, skipped |-> {}]
    ELSE LET varbind == Head(varbinds)
             containment == \E i \in DOMAIN requested_oids :
                                Contains(requested_oids[i], varbind.oid)
         IN  IF ~containment
             THEN LET next == DedupNextRepeating(Tail(varbinds), requested_oids, yielded)
                  IN  [next EXCEPT !.skipped = @ \cup {"not contained"}]
             ELSE [yield |-> <<varbind>>, rest |-> Tail(varbinds), skipped |-> {}]

\* the generator deduped_varbinds resumed with the varbinds it has not looked
\* at: it logs and skips up to the first varbind that is in a requested tree
\* and was not yielded, and is suspended at `yield varbind` (yield: that
\* varbind, rest: the varbinds after it); or it runs off its end (yield
\* empty). skipped: the reasons of the skips it logged on the way
RECURSIVE DedupNext(_, _, _)
DedupNext(varbinds, requested_oids, yielded) ==
    IF varbinds = <<>> THEN [yield |-> <<>>, rest |-> <<>>, skipped |-> {}]
    ELSE LET varbind == Head(varbinds)
             containment == \E i \in DOMAIN requested_oids :
                                Contains(requested_oids[i], varbind.oid)
         IN  IF ~containment
             THEN LET next == DedupNext(Tail(varbinds), requested_oids, yielded)
                  IN  [next EXCEPT !.skipped = @ \cup {"not contained"}]
             ELSE IF varbind.oid \in yielded
             THEN LET next == DedupNext(Tail(varbinds), requested_oids, yielded)
                  IN  [next EXCEPT !.skipped = @ \cup {"more than once"}]
             ELSE [yield |-> <<varbind>>, rest |-> Tail(varbinds), skipped |-> {}]

\* list(deduped_varbinds(requested_oids, grouped_oids, yielded)): the groups
\* sorted as lists, each group in the order received
deduped_varbinds(requested_oids, grouped_oids, yielded) ==
    DedupFrom(SortedVarbinds(grouped_oids), requested_oids, yielded)

-----------------------------------------------------------------------------
(* Results of an awaited call: the exception raised ("" for none), the value *)

Ok(value) == [exc |-> "", value |-> value]
Raise(exc) == [exc |-> exc, value |-> <<>>]

Null == "Null"

\* RaiseWith(exc, args): the exception with its arguments
RaiseWith(exc, args) == [exc |-> exc, value |-> args]

GetRequest(request_id, oids) ==
    [tag |-> "GetRequest", request_id |-> request_id,
     varbinds |-> [i \in DOMAIN oids |-> VarBind(oids[i], Null)]]

SetRequest(request_id, binds) ==
    [tag |-> "SetRequest", request_id |-> request_id, varbinds |-> binds]

GetNextRequest(request_id, oids) ==
    [tag |-> "GetNextRequest", request_id |-> request_id,
     varbinds |-> [i \in DOMAIN oids |-> VarBind(oids[i], Null)]]

BulkGetRequest(request_id, non_repeaters, max_list_size, oids) ==
    [tag |-> "BulkGetRequest", request_id |-> request_id,
     non_repeaters |-> non_repeaters, max_repeaters |-> max_list_size,
     varbinds |-> [i \in DOMAIN oids |-> VarBind(oids[i], Null)]]

\* _send without validate_response_id
SendSkipsValidation(request_id, response) == Ok(response)

\* Client._send once the transport has returned `response`: the decoded
\* response, or SnmpError when its request id is not `request_id`
send_returns(request_id, response) ==
    IF validate_response_id(request_id, response.request_id)
    THEN Raise("SnmpError")
    ELSE Ok(response)

ValuesOf(varbinds) == [i \in DOMAIN varbinds |-> varbinds[i].value]

\* multiget returning the values last to first
multiget_reversed(oids, request_id, response) ==
    LET sent == send_returns(request_id, response)
        output == ValuesOf(response.varbinds)
    IN  IF sent.exc # "" THEN sent
        ELSE IF Len(output) # Len(oids) THEN Raise("SnmpError")
        ELSE Ok([i \in DOMAIN output |-> output[Len(output) + 1 - i]])

\* Client.multiget from the response on
multiget_returns(oids, request_id, response) ==
    LET sent == send_returns(request_id, response)
        output == ValuesOf(response.varbinds)
    IN  IF sent.exc # "" THEN sent
        ELSE IF Len(output) # Len(oids) THEN Raise("SnmpError")
        ELSE Ok(output)

\* get without its isinstance test
get_unchecked(oid, request_id, response) ==
    LET result == multiget_returns(<<oid>>, request_id, response)
    IN  IF result.exc # "" THEN result ELSE Ok(result.value[1])

\* Client.get from the response on
get_returns(oid, request_id, response) ==
    LET result == multiget_returns(<<oid>>, request_id, response)
    IN  IF result.exc # "" THEN result
        ELSE IF result.value[1] \in {NoSuchObject, NoSuchInstance}
        THEN RaiseWith("NoSuchOID", <<oid>>)
        ELSE Ok(result.value[1])

\* Client.multiset from the response on: a dict of the varbinds received
multiset_returns(mappings, request_id, response) ==
    LET sent == send_returns(request_id, response)
        output == DictOfVarBinds(response.varbinds, <<>>)
    IN  IF sent.exc # "" THEN sent
        ELSE IF Len(output) # Len(mappings) THEN Raise("SnmpError")
        ELSE Ok(output)

\* Client.set from the response on: result[oid], KeyError when the response
\* does not hold the OID
set_returns(mappings, request_id, response) ==
    LET result == multiset_returns(mappings, request_id, response)
        oid == mappings[1][1]
    IN  IF result.exc # "" THEN result
        ELSE IF ~\E i \in DOMAIN result.value : result.value[i][1] = oid
        THEN RaiseWith("KeyError", <<oid>>)
        ELSE Ok(result.value[CHOOSE i \in DOMAIN result.value :
                                 result.value[i][1] = oid][2])

\* Client.multigetnext from the response on
multigetnext_returns(oids, request_id, response) ==
    LET sent == send_returns(request_id, response)
    IN  IF sent.exc # "" THEN sent
        ELSE IF Len(response.varbinds) # Len(oids) THEN Raise("SnmpError")
        ELSE LET output == UntilEndOfMibView(response.varbinds)
             IN  IF \E i \in DOMAIN output : ~OidLess(oids[i], output[i].oid)
                 THEN Raise("FaultySNMPImplementation")
                 ELSE Ok(output)

\* Client.getnext from the response on: result[0] of an empty list is an
\* IndexError; result[0] is a VarBind, so the isinstance test against
\* NoSuchObject and NoSuchInstance never finds one
getnext_returns(oid, request_id, response) ==
    LET result == multigetnext_returns(<<oid>>, request_id, response)
    IN  IF result.exc # "" THEN result
        ELSE IF result.value = <<>> THEN Raise("IndexError")
        ELSE Ok(result.value[1])

\* bulkget without its test of the number of varbinds
bulkget_unbounded(scalar_oids, repeating_oids, max_list_size, request_id, response) ==
    LET sent == send_returns(request_id, response)
        varbinds == response.varbinds
        cut == IF Len(scalar_oids) < Len(varbinds) THEN Len(scalar_oids)
               ELSE Len(varbinds)
    IN  IF sent.exc # "" THEN sent
        ELSE Ok([scalars |-> DictOfVarBinds(SubSeq(varbinds, 1, cut), <<>>),
                 listing |-> DictOfVarBinds(
                     UntilEndOfMibView(SubSeq(varbinds, cut + 1, Len(varbinds))), <<>>)])

\* bulkget with a listing that is not cut at EndOfMibView
bulkget_uncut(scalar_oids, repeating_oids, max_list_size, request_id, response) ==
    LET sent == send_returns(request_id, response)
        varbinds == response.varbinds
        cut == IF Len(scalar_oids) < Len(varbinds) THEN Len(scalar_oids)
               ELSE Len(varbinds)
    IN  IF sent.exc # "" THEN sent
        ELSE IF Len(varbinds) > Len(scalar_oids) + max_list_size * Len(repeating_oids)
        THEN Raise("SnmpError")
        ELSE Ok([scalars |-> DictOfVarBinds(SubSeq(varbinds, 1, cut), <<>>),
                 listing |-> DictOfVarBinds(SubSeq(varbinds, cut + 1, Len(varbinds)), <<>>)])

\* Client.bulkget from the response on: a BulkResult of two dicts
bulkget_returns(scalar_oids, repeating_oids, max_list_size, request_id, response) ==
    LET sent == send_returns(request_id, response)
        oids == scalar_oids \o repeating_oids
        non_repeaters == Len(scalar_oids)
        n == IF non_repeaters < Len(oids) THEN non_repeaters ELSE Len(oids)
        m == max_list_size
        r == IF Len(oids) - n > 0 THEN Len(oids) - n ELSE 0
        expected_max_varbinds == n + (m * r)
        varbinds == response.varbinds
        cut == IF Len(scalar_oids) < Len(varbinds) THEN Len(scalar_oids)
               ELSE Len(varbinds)
        scalar_tmp == SubSeq(varbinds, 1, cut)
        repeating_tmp == SubSeq(varbinds, cut + 1, Len(varbinds))
    IN  IF sent.exc # "" THEN sent
        ELSE IF Len(varbinds) > expected_max_varbinds THEN Raise("SnmpError")
        ELSE Ok([scalars |-> DictOfVarBinds(scalar_tmp, <<>>),
                 listing |-> DictOfVarBinds(UntilEndOfMibView(repeating_tmp), <<>>)])

\* the fetcher of Client._bulkwalk_fetcher from the response on
bulkwalk_fetcher_returns(oids, bulk_size, request_id, response) ==
    LET result == bulkget_returns(<<>>, oids, bulk_size, request_id, response)
    IN  IF result.exc # "" THEN result
        ELSE Ok([i \in DOMAIN result.value.listing |->
                    VarBind(result.value.listing[i][1], result.value.listing[i][2])])

-----------------------------------------------------------------------------
(* The remote device *)

\* the typed value the device holds at an OID
ValueOf(oid) == IF Last(oid) % 2 = 1 THEN "a" ELSE "b"

\* GetNext on a conformant agent: the lexicographic successor in the MIB, or
\* the probe itself with EndOfMibView
AgentNext(m, oid) ==
    LET greater == {o \in m : OidLess(oid, o)}
    IN  IF greater = {} THEN VarBind(oid, EndOfMibView)
        ELSE LET succ == CHOOSE o \in greater :
                            \A p \in greater : p = o \/ OidLess(o, p)
             IN  VarBind(succ, ValueOf(succ))

AgentGetNext(m, oids) == [i \in DOMAIN oids |-> AgentNext(m, oids[i])]

\* GetBulk without non-repeaters on a conformant agent (RFC 3416, 4.2.3):
\* max_repetitions rows, each the successors of the row before
RECURSIVE AgentGetBulk(_, _, _)
AgentGetBulk(m, oids, max_repetitions) ==
    IF max_repetitions = 0 \/ oids = <<>> THEN <<>>
    ELSE LET row == AgentGetNext(m, oids)
         IN  row \o AgentGetBulk(m, [i \in DOMAIN row |-> row[i].oid],
                                 max_repetitions - 1)

\* the MIBs of a conformant agent: instances are leaves, none below another
Mibs ==
    {m \in SUBSET OidUniverse :
        \A a, b \in m : a # b => ~Contains(a, b)}

\* Get on a conformant agent: the value held at the OID, NoSuchObject where
\* the MIB holds nothing
AgentGet(m, oids) ==
    [i \in DOMAIN oids |->
        VarBind(oids[i], IF oids[i] \in m THEN ValueOf(oids[i]) ELSE NoSuchObject)]

\* what a device that conforms to nothing may answer
AnyVarBinds ==
    {VarBind(<<1, 1>>, "a"), VarBind(<<1, 2>>, "a"), VarBind(<<2, 1>>, "a"),
     VarBind(<<2, 2>>, EndOfMibView)}

\* ... and what it may answer to a Get or a Set
AnyScalarVarBinds ==
    {VarBind(<<1, 1>>, "a"), VarBind(<<1, 1>>, NoSuchObject),
     VarBind(<<2, 2>>, NoSuchInstance)}

OidsOf(varbinds) == [i \in DOMAIN varbinds |-> varbinds[i].oid]

\* the varbinds a conformant agent answers a PDU with
AgentAnswer(m, pdu) ==
    CASE pdu.tag = "GetRequest" -> AgentGet(m, OidsOf(pdu.varbinds))
      [] pdu.tag = "SetRequest" -> pdu.varbinds
      [] pdu.tag = "GetNextRequest" -> AgentGetNext(m, OidsOf(pdu.varbinds))
      [] pdu.tag = "BulkGetRequest" ->
           LET oids == OidsOf(pdu.varbinds)
               n == IF pdu.non_repeaters < Len(oids) THEN pdu.non_repeaters
                    ELSE Len(oids)
           IN  AgentGetNext(m, SubSeq(oids, 1, n))
               \o AgentGetBulk(m, SubSeq(oids, n + 1, Len(oids)), pdu.max_repeaters)

\* the responses the device may give to a PDU: a conformant agent echoes the
\* request id; any other device answers what it likes, under any request id
DeviceResponses(pdu) ==
    IF agent = "good"
    THEN {[request_id |-> pdu.request_id, varbinds |-> AgentAnswer(mib, pdu)]}
    ELSE LET pool == IF pdu.tag \in {"GetRequest", "SetRequest"}
                     THEN AnyScalarVarBinds ELSE AnyVarBinds
         IN  {[request_id |-> pdu.request_id, varbinds |-> vbs] :
                 vbs \in SeqsUpTo(pool, MaxResp)}
             \cup {[request_id |-> get_request_id(pdu.request_id), varbinds |-> vbs] :
                     vbs \in SeqsUpTo(pool, 1)}

-----------------------------------------------------------------------------
(* raw.py: ClientConfig, Client.__init__, Client.reconfigure                 *)
(* Objects that are compared by identity (the MPM, the LCD dict) carry an    *)
(* identity; `lcds` maps the identity of an LCD dict to its contents.        *)

\* reconfigure scopes one run of the client enters (nested, or of several
\* tasks and open at the same time)
MaxScopes == 2
\* requests one run of the client starts
MaxCalls == 2

\* >>> client.config.timeout
DEFAULT_TIMEOUT == 6

\* credentials: the concrete class (V1, V2C, V3) and the secret of the instance
Credentials(variant, secret) == [variant |-> variant, secret |-> secret]

CredentialsSet ==
    {Credentials("V1", "public"), Credentials("V2C", "public"),
     Credentials("V2C", "private"), Credentials("V3", "user")}

\* ClientConfig: credentials, lcd and timeout (context and retries are carried
\* along like timeout)
ClientConfig(credentials, lcd, timeout) ==
    [credentials |-> credentials, lcd |-> lcd, timeout |-> timeout]

\* identities of objects
Ids == 0..(MaxScopes + 3)

\* identities still referenced by the client or by the frame of an open scope
\* the heap once unreferenced dicts are gone
Collect(heap, live) == [i \in Ids |-> IF i \in live THEN heap[i] ELSE {}]

\* the local lcd of a call of reconfigure that created no dict
NoLcd == -1

\* the LCD dicts that are referenced: by the config and the MPM of the client
\* and by the locals of the open calls of reconfigure (old_config, old_mpm
\* and lcd, the dict the call created)
LiveLcds(cfg, m, frames) ==
    {cfg.lcd, m.lcd}
    \cup {frames[i].old_config.lcd : i \in DOMAIN frames}
    \cup {frames[i].old_mpm.lcd : i \in DOMAIN frames}
    \cup ({frames[i].lcd : i \in DOMAIN frames} \ {NoLcd})

LiveMpms(m, frames) == {m.id} \cup {frames[i].old_mpm.id : i \in DOMAIN frames}

\* the MPMs whose encode a _send is suspended in (`await self.mpm.encode(...)`
\* runs on the MPM the client had when _send was called)
EncodingOfCall ==
    IF call.op # "" /\ call.awaiting = "discovery" THEN {call.encode_mpm} ELSE {}

EncodingOfTasks(ts) == {tasks[t].encode_mpm : t \in {u \in ts : tasks[u].pc = "encode"}}

EncodingMpms == EncodingOfCall \cup EncodingOfTasks(DOMAIN tasks)

\* the heap once a suspended encode has ended and let go of its MPM; others
\* are the MPMs of the encodes that are still suspended
Released(heap, others) ==
    Collect(heap, LiveLcds(config, mpm, scopes) \cup {m.lcd : m \in others})

\* the LCD dicts and the MPMs that are referenced: by the client and its open
\* scopes or by a suspended encode
HeldLcds == LiveLcds(config, mpm, scopes) \cup {m.lcd : m \in EncodingMpms}
HeldMpms == LiveMpms(mpm, scopes) \cup {m.id : m \in EncodingMpms}

\* the identity of a new object
Fresh(live) == CHOOSE i \in Ids \ live : \A j \in Ids \ live : i <= j


\* mpm.create(identifier, handler, lcd): the MPM of the credentials' variant
\* working on the dict lcd
mpm_create(variant, lcd, id) == [id |-> id, variant |-> variant, lcd |-> lcd]

\* mpm.encode(...): the contents of the MPM's LCD afterwards; the v3 MPM
\* caches what discovery told it about the engine
mpm_encode(m, contents) ==
    IF m.variant = "V3" THEN contents \cup {"engine"} ELSE contents

\* mpm.encode(...) starts with a discovery: a v3 MPM whose LCD does not know
\* the engine yet
discovers(m, contents) == m.variant = "V3" /\ "engine" \notin contents

HasKey(d, k) == \E i \in DOMAIN d : d[i][1] = k
DictGet(d, k) == d[CHOOSE i \in DOMAIN d : d[i][1] = k][2]

\* dataclasses.replace(config, **kwargs)
RECURSIVE replace(_, _)
replace(cfg, kwargs) ==
    IF kwargs = <<>> THEN cfg
    ELSE replace([cfg EXCEPT ![Head(kwargs)[1]] = Head(kwargs)[2]], Tail(kwargs))

\* the keyword arguments reconfigure is called with
Overrides ==
    {<< <<"timeout", 10>> >>,
     << <<"credentials", Credentials("V1", "public")>> >>,
     << <<"credentials", Credentials("V2C", "private")>> >>,
     << <<"credentials", Credentials("V3", "user")>>, <<"timeout", 10>> >>}

\* a new MPM whenever credentials are overridden
rebuilds_on_credentials(cfg, kwargs) == HasKey(kwargs, "credentials")

\* "credentials" in kwargs and type(self.config.credentials) != type(kwargs["credentials"])
rebuilds_mpm(cfg, kwargs) ==
    /\ HasKey(kwargs, "credentials")
    /\ cfg.credentials.variant # DictGet(kwargs, "credentials").variant

\* a finally clause that restores the config alone
finally_keeps_mpm(frame, m) == [config |-> frame.old_config, mpm |-> m]

\* finally: self.config = old_config; self.mpm = old_mpm
reconfigure_finally(frame, m) == [config |-> frame.old_config, mpm |-> frame.old_mpm]

\* what reconfigure did in a step: kind is "entered", "failed" (mpm.create
\* raised) or "left"; how tells how the body ended, rebuilt whether the scope
\* had replaced the MPM
Event(kind, how, rebuilt) == [kind |-> kind, how |-> how, rebuilt |-> rebuilt]
NoEvent == Event("", "", FALSE)
NoCall == [op |-> ""]
NoDone == [op |-> ""]

\* Client(ip, credentials): one LCD dict shared by the config and the MPM
InitClient(credentials) ==
    /\ config = ClientConfig(credentials, 0, DEFAULT_TIMEOUT)
    /\ mpm = mpm_create(credentials.variant, 0, 0)
    /\ lcds = [i \in Ids |-> {}]
    /\ scopes = <<>>
    /\ call = NoCall
    /\ done = NoDone
    /\ event = NoEvent
    /\ ncalls = 0
    /\ nscopes = 0

\* `with client.reconfigure(**kwargs):` is entered, inside the scopes that
\* are open. created tells whether mpm.create returns an MPM or raises; when
\* it raises the finally clause runs and the error leaves the with statement
ReconfigureEnter(kwargs, created) ==
    LET old_config == config
        old_mpm == mpm
        new_config == replace(old_config, kwargs)
        lcd == Fresh(HeldLcds)
        frame == [old_config |-> old_config, old_mpm |-> old_mpm, kwargs |-> kwargs,
                  lcd |-> IF rebuilds_mpm(config, kwargs) THEN lcd ELSE NoLcd]
    IN  /\ nscopes < MaxScopes
        /\ IF rebuilds_mpm(config, kwargs)
           THEN IF created
                THEN /\ mpm' = mpm_create(DictGet(kwargs, "credentials").variant, lcd,
                                          Fresh(HeldMpms))
                     /\ lcds' = [lcds EXCEPT ![lcd] = {}]
                     /\ config' = new_config
                     /\ scopes' = Append(scopes, frame)
                     /\ event' = Event("entered", "", TRUE)
                ELSE /\ config' = reconfigure_finally(frame, mpm).config
                     /\ mpm' = reconfigure_finally(frame, mpm).mpm
                     /\ event' = Event("failed", "mpm.create", FALSE)
                     /\ UNCHANGED <<lcds, scopes>>
           ELSE /\ created
                /\ config' = new_config
                /\ scopes' = Append(scopes, frame)
                /\ event' = Event("entered", "", FALSE)
                /\ UNCHANGED <<mpm, lcds>>
        /\ nscopes' = nscopes + 1
        /\ done' = NoDone
        /\ UNCHANGED <<call, ncalls, request_id_counter, deviceVars, tableVars, trapVars, taskVars, usmVars, walkVars>>

Enter ==
    \E kwargs \in Overrides, created \in BOOLEAN : ReconfigureEnter(kwargs, created)

\* the sequence without its element i
Without(s, i) == SubSeq(s, 1, i - 1) \o SubSeq(s, i + 1, Len(s))

\* the body of the with statement of scope i ends: normally, by an error or by
\* the cancellation of its task; the finally clause runs and restores the
\* old_config and the old_mpm of that call of reconfigure. Scopes of one task
\* end innermost first; a scope of another task may end while scopes that
\* were entered later are open
ReconfigureLeave(how, i) ==
    LET frame == scopes[i]
        after == reconfigure_finally(frame, mpm)
        outer == Without(scopes, i)
    IN  /\ i \in DOMAIN scopes
        /\ config' = after.config
        /\ mpm' = after.mpm
        /\ scopes' = outer
        /\ lcds' = Collect(lcds, LiveLcds(after.config, after.mpm, outer)
                                     \cup {m.lcd : m \in EncodingMpms})
        /\ event' = Event("left", how, rebuilds_mpm(frame.old_config, frame.kwargs))
        /\ done' = NoDone
        /\ UNCHANGED <<call, ncalls, nscopes, request_id_counter, deviceVars, tableVars, trapVars, taskVars, usmVars, walkVars>>

Leave ==
    \E how \in {"normal", "error", "cancelled"}, i \in DOMAIN scopes :
        ReconfigureLeave(how, i)

-----------------------------------------------------------------------------
(* raw.py: the request operations of Client. The steps of a request are the  *)
(* stretches between the suspensions of _send: up to `await self.sender(...)`*)
(* (for a v3 MPM that has to discover the engine: up to `await               *)
(* self.mpm.encode(...)`, then up to `await self.sender(...)`), and from the *)
(* response on.                                                              *)

RequestOids == {<<1, 1>>, <<2, 2>>}

RequestLists == {<< <<1, 1>> >>, << <<1, 1>>, <<2, 2>> >>}

\* the mappings multiset is called with: a dict of OID -> value
Mappings ==
    {<< <<<<1, 1>>, "a">> >>,
     << <<<<1, 1>>, "a">>, <<<<2, 2>>, "b">> >>,
     << <<<<1, 1>>, "untyped">> >>}

\* the MIB of the conformant agent the requests go to
RequestMib == {<<2, 1>>, <<2, 2>>}

NoPdu == [tag |-> "", request_id |-> 0, varbinds |-> <<>>]
NoResponse == [request_id |-> 0, varbinds |-> <<>>]

\* Client._send(pdu, request_id) up to its first suspension. counter is
\* get_request_id's counter after the ids of the request were drawn. A v3 MPM
\* that does not know the engine suspends in `await self.mpm.encode(...)`:
\* its discovery message is at the transport under an id of its own, the LCD
\* is as it was and the request is not sent. Otherwise the MPM encodes the
\* PDU and the task waits for the transport in `await self.sender(...)`
Send(op, args, pdu, request_id, counter) ==
    /\ call.op = ""
    /\ ncalls < MaxCalls
    /\ IF discovers(mpm, lcds[mpm.lcd])
       THEN /\ call' = [op |-> op, args |-> args, pdu |-> pdu, request_id |-> request_id,
                        awaiting |-> "discovery",
                        discovery_id |-> get_request_id(counter),
                        encode_mpm |-> mpm]
            /\ request_id_counter' = get_request_id(counter)
       ELSE /\ call' = [op |-> op, args |-> args, pdu |-> pdu, request_id |-> request_id,
                        awaiting |-> "response"]
            /\ request_id_counter' = counter
    /\ lcds' = lcds
    /\ ncalls' = ncalls + 1
    /\ UNCHANGED nscopes
    /\ done' = NoDone
    /\ event' = NoEvent
    /\ UNCHANGED <<config, mpm, scopes, deviceVars, tableVars, trapVars, taskVars, usmVars, walkVars>>

\* get(oid): multiget([oid])
Get ==
    \E oid \in RequestOids :
        LET request_id == get_request_id(request_id_counter)
        IN  Send("get", <<oid>>, GetRequest(request_id, <<oid>>), request_id, request_id)

Multiget ==
    \E oids \in RequestLists :
        LET request_id == get_request_id(request_id_counter)
        IN  Send("multiget", oids, GetRequest(request_id, oids), request_id, request_id)

Multigetnext ==
    \E oids \in RequestLists :
        LET request_id == get_request_id(request_id_counter)
        IN  Send("multigetnext", oids, GetNextRequest(request_id, oids),
                 request_id, request_id)

\* getnext(oid): multigetnext([oid])
Getnext ==
    \E oid \in RequestOids :
        LET request_id == get_request_id(request_id_counter)
        IN  Send("getnext", <<oid>>, GetNextRequest(request_id, <<oid>>),
                 request_id, request_id)

\* any([not isinstance(v, Type) for v in mappings.values()]) finding nothing
untyped_never(mappings) == FALSE

\* any([not isinstance(v, Type) for v in mappings.values()])
untyped(mappings) == \E i \in DOMAIN mappings : mappings[i][2] \notin TypedValues

\* multiset(mappings), called as `op`: TypeError before anything is sent when a
\* value is no Type; else get_request_id() is called for the PDU and once more
\* for _send
MultisetCall(op, mappings) ==
    IF untyped(mappings)
    THEN /\ call.op = ""
         /\ ncalls < MaxCalls
         /\ done' = [op |-> op, args |-> mappings, answered |-> FALSE,
                     request_id |-> 0, pdu |-> NoPdu, response |-> NoResponse,
                     sent |-> Raise("TypeError"), result |-> Raise("TypeError")]
         /\ ncalls' = ncalls + 1
         /\ UNCHANGED nscopes
         /\ event' = NoEvent
         /\ UNCHANGED <<call, config, mpm, lcds, scopes, request_id_counter,
                        deviceVars, tableVars, trapVars, taskVars, usmVars, walkVars>>
    ELSE LET binds == [i \in DOMAIN mappings |->
                          VarBind(mappings[i][1], mappings[i][2])]
             pdu_request_id == get_request_id(request_id_counter)
             request_id == get_request_id(pdu_request_id)
         IN  Send(op, mappings, SetRequest(pdu_request_id, binds),
                  request_id, request_id)

Multiset == \E mappings \in Mappings : MultisetCall("multiset", mappings)

\* set(oid, value): multiset({oid: value})
Set ==
    \E oid \in {<<1, 1>>}, value \in {"a", "untyped"} :
        MultisetCall("set", << <<oid, value>> >>)

Bulkget ==
    \E scalar_oids \in {<<>>, << <<1, 1>> >>}, max_list_size \in 1..MaxBulk :
        LET repeating_oids == << <<2>> >>
            request_id == get_request_id(request_id_counter)
        IN  Send("bulkget",
                 [scalar_oids |-> scalar_oids, repeating_oids |-> repeating_oids,
                  max_list_size |-> max_list_size],
                 BulkGetRequest(request_id, Len(scalar_oids), max_list_size,
                                scalar_oids \o repeating_oids),
                 request_id, request_id)

\* what the operation of the call returns or raises once _send has the response
Returns(c, response) ==
    CASE c.op = "get" -> get_returns(c.args[1], c.request_id, response)
      [] c.op = "multiget" -> multiget_returns(c.args, c.request_id, response)
      [] c.op = "multigetnext" -> multigetnext_returns(c.args, c.request_id, response)
      [] c.op = "getnext" -> getnext_returns(c.args[1], c.request_id, response)
      [] c.op = "multiset" -> multiset_returns(c.args, c.request_id, response)
      [] c.op = "set" -> set_returns(c.args, c.request_id, response)
      [] c.op = "bulkget" ->
           bulkget_returns(c.args.scalar_oids, c.args.repeating_oids,
                           c.args.max_list_size, c.request_id, response)

\* the task that awaits the operation is cancelled while _send waits for the
\* answer to its discovery (`await self.mpm.encode(...)`) or to its request
\* (`await self.sender(...)`): CancelledError leaves _send and the operation,
\* no call is in flight and nothing is returned
Cancel ==
    /\ call.op # ""
    /\ call' = NoCall
    /\ lcds' = Released(lcds, EncodingOfTasks(DOMAIN tasks))
    /\ event' = NoEvent
    /\ UNCHANGED <<config, mpm, scopes, done, ncalls, nscopes, request_id_counter,
                   deviceVars, tableVars, trapVars, taskVars, usmVars, walkVars>>

\* the transport returns the device's response: _send decodes and validates
\* it, the operation unwraps the varbinds
Receive ==
    /\ call.op # ""
    /\ call.awaiting = "response"
    /\ \E response \in DeviceResponses(call.pdu) :
          done' = [op |-> call.op, args |-> call.args, answered |-> TRUE,
                   request_id |-> call.request_id, pdu |-> call.pdu,
                   response |-> response,
                   sent |-> send_returns(call.request_id, response),
                   result |-> Returns(call, response)]
    /\ call' = NoCall
    /\ event' = NoEvent
    /\ UNCHANGED <<config, mpm, lcds, scopes, ncalls, nscopes, request_id_counter,
                   deviceVars, tableVars, trapVars, taskVars, usmVars, walkVars>>

-----------------------------------------------------------------------------
(* raw.py: Client._send run by several tasks of one event loop. A task is    *)
(* suspended at `await self.mpm.encode(...)` while its MPM discovers the     *)
(* engine and at `await self.sender(...)`; until the transport answers, the  *)
(* other tasks and the reconfigure scopes may run.                           *)

Tasks == {1, 2}

NoFrame == [pc |-> "idle"]

InitTaskVars == tasks = [t \in Tasks |-> NoFrame]

\* _send of task t up to its first suspension, for a get(oid): the MPM and the
\* credentials of the client encode the request. A v3 MPM that does not know
\* the engine suspends in `await self.mpm.encode(...)`, its discovery message
\* at the transport under an id of its own; otherwise the request is at the
\* transport (`await self.sender(...)`)
TaskSend(t) ==
    /\ tasks[t].pc = "idle"
    /\ ncalls < MaxCalls
    /\ \E oid \in {<<1, 1>>} :
          LET request_id == get_request_id(request_id_counter)
          IN  IF discovers(mpm, lcds[mpm.lcd])
              THEN /\ tasks' = [tasks EXCEPT ![t] =
                                   [pc |-> "encode",
                                    request_id |-> request_id,
                                    pdu |-> GetRequest(request_id, <<oid>>),
                                    encode_credentials |-> config.credentials,
                                    encode_mpm |-> mpm,
                                    discovery_id |-> get_request_id(request_id)]]
                   /\ request_id_counter' = get_request_id(request_id)
              ELSE /\ tasks' = [tasks EXCEPT ![t] =
                                   [pc |-> "sender",
                                    request_id |-> request_id,
                                    pdu |-> GetRequest(request_id, <<oid>>),
                                    encode_credentials |-> config.credentials,
                                    encode_mpm |-> mpm]]
                   /\ request_id_counter' = request_id
    /\ lcds' = lcds
    /\ ncalls' = ncalls + 1
    /\ UNCHANGED nscopes
    /\ UNCHANGED <<config, mpm, scopes, call, done, event, deviceVars, tableVars, trapVars, walkVars,
                   usmVars>>

\* the transport answers task t: _send decodes the response with the MPM and
\* the credentials the client has now, and validates its request id
TaskReceive(t) ==
    /\ tasks[t].pc = "sender"
    /\ \E response \in DeviceResponses(tasks[t].pdu) :
          tasks' = [tasks EXCEPT ![t] =
                       [pc |-> "returned",
                        request_id |-> tasks[t].request_id,
                        pdu |-> tasks[t].pdu,
                        encode_credentials |-> tasks[t].encode_credentials,
                        encode_mpm |-> tasks[t].encode_mpm,
                        decode_credentials |-> config.credentials,
                        decode_mpm |-> mpm,
                        sent |-> send_returns(tasks[t].request_id, response)]]
    /\ UNCHANGED <<request_id_counter, deviceVars, tableVars, trapVars, walkVars, clientVars, usmVars>>

\* task t is cancelled while it waits for the transport, for the answer to its
\* discovery or to its request
TaskCancel(t) ==
    /\ tasks[t].pc \in {"encode", "sender"}
    /\ tasks' = [tasks EXCEPT ![t] = NoFrame]
    /\ lcds' = Released(lcds, EncodingOfCall \cup EncodingOfTasks(DOMAIN tasks \ {t}))
    /\ UNCHANGED <<request_id_counter, deviceVars, tableVars, trapVars, walkVars, usmVars,
                   config, mpm, scopes, call, done, event, ncalls, nscopes>>

\* the operation of task t has returned to its caller, or its exception has
\* reached it
TaskEnd(t) ==
    /\ tasks[t].pc \in {"returned", "failed"}
    /\ tasks' = [tasks EXCEPT ![t] = NoFrame]
    /\ UNCHANGED <<request_id_counter, deviceVars, tableVars, trapVars, walkVars, clientVars, usmVars>>

TaskSends == \E t \in Tasks : TaskSend(t)
TaskReceives == \E t \in Tasks : TaskReceive(t)
TaskCancels == \E t \in Tasks : TaskCancel(t)
TaskEnds == \E t \in Tasks : TaskEnd(t)

-----------------------------------------------------------------------------
(* raw.py: register_trap_callback. listen (puresnmp.transport) calls decode   *)
(* for every datagram; an exception that leaves decode is logged by the      *)
(* event loop and the listener goes on.                                      *)

\* longest run of datagrams
MaxDatagrams == 3

Trap(name) == [tag |-> "Trap", name |-> name]

\* the datagrams that reach the socket: traps of version 2c, bytes that are no
\* sequence, a message of an unknown version, a message whose PDU is damaged
Datagrams ==
    {<<"Sequence", 1, "public", Trap(name)>> : name \in {"coldStart", "linkDown"}}
    \cup {<<"garbage">>,
          <<"Sequence", 9, "public", Trap("coldStart")>>,
          <<"Sequence", 1, "public", [tag |-> "garbage", name |-> ""]>>}

\* Sequence.decode(packet.data)
Sequence_decode(data) ==
    IF data[1] = "Sequence" THEN Ok(<<Tail(data)>>) ELSE Raise("ValueError")

\* the versions mpm.create knows a message processing model for
MpmIdentifiers == {0, 1, 3}

\* mproc.decode(packet.data, credentials): the PDU of the message
mpm_decode(data, credentials) ==
    IF Len(data) = 4 /\ data[4].tag = "Trap" THEN Ok(data[4]) ELSE Raise("ValueError")

\* decode scheduling the callback before it has decoded the datagram
decode_scheduling_first(data, credentials) == Ok(data)

\* decode(packet) of register_trap_callback: the PDU the callback is scheduled
\* with, or the exception that leaves decode
decode(data, credentials) ==
    LET as_sequence == Sequence_decode(data)
        obj == as_sequence.value[1]
    IN  IF as_sequence.exc # "" THEN as_sequence
        ELSE IF obj[1] \notin MpmIdentifiers THEN Raise("UnknownMessageProcessingModel")
        ELSE mpm_decode(data, credentials)

InitTrapVars ==
    /\ l_listening = FALSE
    /\ l_received = <<>>
    /\ l_scheduled = <<>>
    /\ l_errors = <<>>

\* register_trap_callback(callback, credentials=V2C("public"))
Listen ==
    /\ ~l_listening
    /\ l_listening' = TRUE
    /\ UNCHANGED <<l_received, l_scheduled, l_errors, request_id_counter,
                   deviceVars, tableVars, walkVars, clientVars, usmVars, taskVars>>

\* a datagram arrives: listen calls decode(packet)
Datagram ==
    /\ l_listening
    /\ Len(l_received) < MaxDatagrams
    /\ \E data \in Datagrams :
          LET trap == decode(data, Credentials("V2C", "public"))
              nth == Len(l_received) + 1
          IN  /\ l_received' = Append(l_received, data)
              /\ IF trap.exc = ""
                 THEN /\ l_scheduled' = Append(l_scheduled,
                                               [datagram |-> nth, pdu |-> trap.value])
                      /\ l_errors' = l_errors
                 ELSE /\ l_errors' = Append(l_errors,
                                            [datagram |-> nth, exc |-> trap.exc])
                      /\ l_scheduled' = l_scheduled
    /\ UNCHANGED <<l_listening, request_id_counter, deviceVars, tableVars, walkVars,
                   clientVars, usmVars, taskVars>>

-----------------------------------------------------------------------------
(* usm.py: the user-based security model. The classes of puresnmp.adt and    *)
(* puresnmp.credentials and the plugins of puresnmp.auth and puresnmp.priv   *)
(* are modelled from the way usm.py uses them: a digest and a ciphertext are *)
(* terms that keep what they were computed from.                             *)

\* largest engine boots and engine time of the model
MaxBoots == 2
MaxTime == 2

Engines == {"E1", "E2"}

\* Python's None in the place of credentials.auth or credentials.priv
None == [method |-> "None", key |-> "None"]

\* puresnmp.credentials
Auth(method, key) == [method |-> method, key |-> key]
Priv(method, key) == [method |-> method, key |-> key]
V3(username, auth, priv) ==
    [variant |-> "V3", username |-> username, auth |-> auth, priv |-> priv]

\* str.encode("ascii")
encode(text) == <<"ascii", text>>

\* b"\x00" * 12
Zeros12 == [i \in 1..12 |-> "00"]

USMSecurityParameters(authoritative_engine_id, authoritative_engine_boots, authoritative_engine_time, user_name, auth_params, priv_params) ==
    [authoritative_engine_id |-> authoritative_engine_id,
     authoritative_engine_boots |-> authoritative_engine_boots,
     authoritative_engine_time |-> authoritative_engine_time,
     user_name |-> user_name,
     auth_params |-> auth_params,
     priv_params |-> priv_params]

\* USMSecurityParameters.__bytes__: the Sequence of as_snmp_type
USMSecurityParameters_bytes(secparams) ==
    <<"Sequence",
      <<"OctetString", secparams.authoritative_engine_id>>,
      <<"Integer", secparams.authoritative_engine_boots>>,
      <<"Integer", secparams.authoritative_engine_time>>,
      <<"OctetString", secparams.user_name>>,
      <<"OctetString", secparams.auth_params>>,
      <<"OctetString", secparams.priv_params>> >>

\* USMSecurityParameters.decode: pop_tlv, then from_snmp_type
USMSecurityParameters_decode(data) ==
    USMSecurityParameters(data[2][2], data[3][2], data[4][2], data[5][2],
                          data[6][2], data[7][2])

\* puresnmp.adt
V3Flags(auth, priv, reportable) ==
    [auth |-> auth, priv |-> priv, reportable |-> reportable]
HeaderData(message_id, flags) == [message_id |-> message_id, flags |-> flags]
Message(version, global_data, security_parameters, scoped_pdu) ==
    [version |-> version, global_data |-> global_data,
     security_parameters |-> security_parameters, scoped_pdu |-> scoped_pdu]
ScopedPDU(data) == [tag |-> "ScopedPDU", value |-> <<data>>]
OctetString(value) == [tag |-> "OctetString", value |-> value]

\* bytes(message.scoped_pdu), of a ScopedPDU or of an OctetString
scoped_pdu_bytes(scoped_pdu) == <<scoped_pdu.tag>> \o scoped_pdu.value

\* ScopedPDU.decode
ScopedPDU_decode(data) ==
    IF Len(data) = 2 /\ data[1] = "ScopedPDU"
    THEN Ok([tag |-> "ScopedPDU", value |-> Tail(data)])
    ELSE Raise("ValueError")

\* bytes(message)
Message_bytes(message) ==
    <<"Sequence",
      <<"Integer", message.version>>,
      <<"Sequence", message.global_data.message_id,
        <<message.global_data.flags.auth, message.global_data.flags.priv,
          message.global_data.flags.reportable>> >>,
      <<"OctetString", message.security_parameters>>,
      scoped_pdu_bytes(message.scoped_pdu) >>

\* puresnmp.priv: encrypt_data returns the ciphertext and the salt, which is
\* made from the engine boots
encrypt_data(method, key, engine_id, engine_boots, data) ==
    LET salt == <<"salt", engine_boots>>
    IN  [encrypted |-> <<method, key, engine_id, salt, data>>, salt |-> salt]

\* puresnmp.priv: decrypt_data gives the plaintext back for the key, the
\* engine id and the salt of the encryption, and other bytes without them
decrypt_data(method, key, data, engine_id, salt) ==
    IF /\ Len(data) = 5
       /\ data[1] = method
       /\ data[2] = key
       /\ data[3] = engine_id
       /\ data[4] = salt
    THEN data[5]
    ELSE <<"garbage">>

\* puresnmp.auth: the digest of the message under the localised key
authenticate_outgoing_message(method, key, data, engine_id) ==
    <<method, key, engine_id, data>>

\* a verification that accepts every digest
authenticate_incoming_anything(method, key, data, received_digest, engine_id) ==
    Ok(<<>>)

\* puresnmp.auth: raises unless the received digest is the one of the message
authenticate_incoming_message(method, key, data, received_digest, engine_id) ==
    IF authenticate_outgoing_message(method, key, data, engine_id) = received_digest
    THEN Ok(<<>>)
    ELSE Raise("AuthenticationError")

\* reset_digest leaving the message as it is
reset_digest_skipped(message) == message

\* reset_digest: the message with auth_params set to twelve zero bytes
reset_digest(message) ==
    LET secparams == USMSecurityParameters_decode(message.security_parameters)
        neutral == replace(secparams, << <<"auth_params", Zeros12>> >>)
    IN  replace(message,
                << <<"security_parameters", USMSecurityParameters_bytes(neutral)>> >>)

\* UserSecurityModel.set_engine_timing
set_engine_timing(lc, engine_id, boots, time) ==
    [e \in DOMAIN lc \cup {engine_id} |->
        IF e = engine_id
        THEN [authoritative_engine_boots |-> boots,
              authoritative_engine_time |-> time]
        ELSE lc[e]]

\* what a call of the security model did: its result, the primitives of
\* puresnmp.auth and puresnmp.priv it invoked, in order, and the bytes it
\* handed to the authentication
Outcome(result, calls, hashed) ==
    [result |-> result, calls |-> calls, hashed |-> hashed]

\* an engine_config of zeroes in the place of the one of the LCD
engine_config_of_zeroes(lc, security_engine_id) ==
    [authoritative_engine_boots |-> 0, authoritative_engine_time |-> 0]

\* engine_config = self.local_config[security_engine_id]
engine_config(lc, security_engine_id) == lc[security_engine_id]

\* UserSecurityModel.generate_request_message
generate_request_message(lc, message, security_engine_id, credentials) ==
    IF credentials.variant # "V3" THEN Outcome(Raise("TypeError"), <<>>, <<>>)
    ELSE IF security_engine_id \notin DOMAIN lc
    THEN Outcome(Raise("KeyError"), <<>>, <<>>)
    ELSE
    LET security_name == encode(credentials.username)
        engine_boots ==
            engine_config(lc, security_engine_id).authoritative_engine_boots
        engine_time ==
            engine_config(lc, security_engine_id).authoritative_engine_time
        with_priv == credentials.priv # None
        with_auth == credentials.auth # None
    IN
    \* credentials.auth.method is read in the test of the privacy level
    IF with_priv /\ ~with_auth THEN Outcome(Raise("AttributeError"), <<>>, <<>>)
    ELSE IF with_priv /\ (credentials.priv.method = "" \/ credentials.auth.method = "")
    THEN Outcome(Raise("UnsupportedSecurityLevel"), <<>>, <<>>)
    ELSE
    LET crypt == encrypt_data(credentials.priv.method, credentials.priv.key,
                              security_engine_id, engine_boots,
                              scoped_pdu_bytes(message.scoped_pdu))
        scoped_pdu == IF with_priv THEN OctetString(crypt.encrypted)
                      ELSE message.scoped_pdu
        salt == IF with_priv THEN crypt.salt ELSE <<>>
        encrypted == IF with_priv THEN <<"encrypt_data">> ELSE <<>>
        unauthed_message ==
            replace(message,
                    << <<"scoped_pdu", scoped_pdu>>,
                       <<"security_parameters",
                         USMSecurityParameters_bytes(
                             USMSecurityParameters(security_engine_id, engine_boots,
                                                   engine_time, security_name,
                                                   <<>>, salt))>> >>)
    IN
    IF with_auth /\ credentials.auth.method = ""
    THEN Outcome(Raise("UnsupportedSecurityLevel"), encrypted, <<>>)
    ELSE IF with_auth
    THEN LET without_digest == reset_digest(unauthed_message)
             auth_result ==
                 authenticate_outgoing_message(credentials.auth.method,
                                               credentials.auth.key,
                                               Message_bytes(without_digest),
                                               security_engine_id)
             security_params ==
                 USMSecurityParameters(security_engine_id, engine_boots,
                                       engine_time, security_name, auth_result,
                                       salt)
             authed_message ==
                 Message(unauthed_message.version, unauthed_message.global_data,
                         USMSecurityParameters_bytes(security_params),
                         unauthed_message.scoped_pdu)
         IN  Outcome(Ok(authed_message),
                     encrypted \o <<"authenticate_outgoing_message">>,
                     Message_bytes(without_digest))
    ELSE LET auth_params == <<>>
             security_params ==
                 USMSecurityParameters(security_engine_id, engine_boots,
                                       engine_time, security_name, auth_params,
                                       salt)
             secured_message ==
                 Message(message.version, message.global_data,
                         USMSecurityParameters_bytes(security_params),
                         scoped_pdu)
         IN  Outcome(Ok(secured_message), encrypted, <<>>)

\* security_name != credentials.username.encode("ascii") finding no difference
unknown_user_never(security_name, credentials) == FALSE

\* security_name != credentials.username.encode("ascii")
unknown_user(security_name, credentials) ==
    security_name # encode(credentials.username)

\* UserSecurityModel.process_incoming_message
process_incoming_message(message, credentials) ==
    LET security_params == USMSecurityParameters_decode(message.security_parameters)
        security_name == security_params.user_name
        flags == message.global_data.flags
    IN
    \* V1 and V2C credentials have no username
    IF credentials.variant # "V3" THEN Outcome(Raise("AttributeError"), <<>>, <<>>)
    ELSE IF unknown_user(security_name, credentials)
    THEN Outcome(RaiseWith("SnmpError", <<"Unknown User">>), <<>>, <<>>)
    \* auth.create(credentials.auth.method) comes before the test of the flags
    ELSE IF credentials.auth = None THEN Outcome(Raise("AttributeError"), <<>>, <<>>)
    ELSE
    LET auth_method == credentials.auth.method
        without_digest == reset_digest(message)
        verified ==
            IF flags.auth
            THEN authenticate_incoming_message(
                     auth_method, credentials.auth.key,
                     Message_bytes(without_digest), security_params.auth_params,
                     security_params.authoritative_engine_id)
            ELSE Ok(<<>>)
        authenticated == IF flags.auth THEN <<"authenticate_incoming_message">>
                         ELSE <<>>
        hashed == IF flags.auth THEN Message_bytes(without_digest) ELSE <<>>
    IN
    IF flags.auth /\ auth_method = ""
    THEN Outcome(Raise("UnsupportedSecurityLevel"), <<>>, <<>>)
    ELSE IF verified.exc # ""
    THEN Outcome(RaiseWith("SnmpError", <<"authenticationFailure">>),
                 authenticated, hashed)
    ELSE IF ~flags.priv THEN Outcome(Ok(message), authenticated, hashed)
    \* priv.create(credentials.priv.method) is outside of the try block
    ELSE IF credentials.priv = None
    THEN Outcome(Raise("AttributeError"), authenticated, hashed)
    ELSE IF message.scoped_pdu.tag # "OctetString"
    THEN Outcome(RaiseWith("SnmpError", <<"DecryptionError">>), authenticated, hashed)
    ELSE
    LET decrypted == decrypt_data(credentials.priv.method, credentials.priv.key,
                                  message.scoped_pdu.value,
                                  security_params.authoritative_engine_id,
                                  security_params.priv_params)
        decoded == ScopedPDU_decode(decrypted)
        decrypts == authenticated \o <<"decrypt_data">>
    IN  IF decoded.exc # ""
        THEN Outcome(RaiseWith("SnmpError", <<"DecryptionError">>), decrypts, hashed)
        ELSE Outcome(Ok(replace(message, << <<"scoped_pdu", decoded.value>> >>)),
                     decrypts, hashed)

\* the messages handed to generate_request_message: version 3, reportable,
\* no security parameters yet, a plain scoped PDU
UsmMessages ==
    {Message(3, HeaderData(1, V3Flags(a, p, TRUE)), <<>>, ScopedPDU("GetRequest")) :
        a \in BOOLEAN, p \in BOOLEAN}

Usernames == {"user", "other"}

UsmCredentials ==
    {V3(username, a, p) :
        username \in Usernames,
        a \in {None, Auth("md5", "authkey")},
        p \in {None, Priv("des", "privkey")}}
    \cup {Credentials("V2C", "public")}

\* what happens to a message between the two engines
Changes ==
    {"", "message_id", "flags.auth", "flags.priv", "engine_id", "engine_boots",
     "user_name", "auth_params", "priv_params", "scoped_pdu"}

\* the message with one of its parts changed
Changed(what, message) ==
    LET secparams == USMSecurityParameters_decode(message.security_parameters)
        flags == message.global_data.flags
        with_secparams(name, value) ==
            replace(message,
                    << <<"security_parameters",
                         USMSecurityParameters_bytes(
                             replace(secparams, << <<name, value>> >>))>> >>)
        other_pdu == <<"ScopedPDU", "SetRequest">>
    IN  CASE what = "message_id" ->
               [message EXCEPT !.global_data.message_id = @ + 1]
          [] what = "flags.auth" ->
               [message EXCEPT !.global_data.flags.auth = ~@]
          [] what = "flags.priv" ->
               [message EXCEPT !.global_data.flags.priv = ~@]
          [] what = "engine_id" ->
               with_secparams("authoritative_engine_id",
                              IF secparams.authoritative_engine_id = "E1"
                              THEN "E2" ELSE "E1")
          [] what = "engine_boots" ->
               with_secparams("authoritative_engine_boots",
                              secparams.authoritative_engine_boots + 1)
          [] what = "user_name" ->
               with_secparams("user_name",
                              IF secparams.user_name = encode("user")
                              THEN encode("other") ELSE encode("user"))
          [] what = "auth_params" -> with_secparams("auth_params", Zeros12)
          [] what = "priv_params" -> with_secparams("priv_params", <<"salt", 0>>)
          [] what = "scoped_pdu" ->
               IF message.scoped_pdu.tag = "OctetString"
               THEN [message EXCEPT !.scoped_pdu.value[5] = other_pdu]
               ELSE [message EXCEPT !.scoped_pdu.value = Tail(other_pdu)]
          [] OTHER -> message

NoOutcome == [op |-> ""]

InitUsmVars ==
    /\ local_config = <<>>
    /\ u_pc = "idle"
    /\ u_out = NoOutcome
    /\ u_wire = NoOutcome
    /\ u_in = NoOutcome

\* set_engine_timing(engine_id, boots, time), as after a discovery
SetEngineTiming ==
    /\ u_pc = "idle"
    /\ \E engine_id \in Engines, boots \in 1..MaxBoots, time \in 1..MaxTime :
          local_config' = set_engine_timing(local_config, engine_id, boots, time)
    /\ UNCHANGED <<u_pc, u_out, u_wire, u_in, request_id_counter, deviceVars, tableVars, trapVars, taskVars,
                   walkVars, clientVars>>

\* generate_request_message(message, security_engine_id, credentials)
Generate ==
    /\ u_pc = "idle"
    /\ \E message \in UsmMessages, security_engine_id \in Engines,
          credentials \in UsmCredentials :
          LET outcome == generate_request_message(local_config, message,
                                                  security_engine_id, credentials)
          IN  u_out' = [op |-> "generate_request_message",
                        message |-> message,
                        security_engine_id |-> security_engine_id,
                        credentials |-> credentials,
                        local_config |-> local_config,
                        result |-> outcome.result,
                        calls |-> outcome.calls,
                        hashed |-> outcome.hashed]
    /\ u_pc' = "generated"
    /\ u_wire' = NoOutcome
    /\ u_in' = NoOutcome
    /\ UNCHANGED <<local_config, request_id_counter, deviceVars, tableVars, trapVars, taskVars, walkVars,
                   clientVars>>

\* the generated message reaches an engine, as it is or with a part changed
Deliver ==
    /\ u_pc = "generated"
    /\ u_out.result.exc = ""
    /\ \E what \in Changes :
          u_wire' = [op |-> "deliver", changed |-> what,
                     message |-> Changed(what, u_out.result.value)]
    /\ u_pc' = "received"
    /\ UNCHANGED <<local_config, u_out, u_in, request_id_counter, deviceVars, tableVars, trapVars, taskVars,
                   walkVars, clientVars>>

\* the engine answers: a message secured like the request, with the boots and
\* the time of the engine's own clock
Respond ==
    /\ u_pc = "generated"
    /\ u_out.result.exc = ""
    /\ \E boots \in 1..MaxBoots, time \in 1..MaxTime :
          LET clock == set_engine_timing(<<>>, u_out.security_engine_id, boots, time)
              outcome == generate_request_message(clock, u_out.message,
                                                  u_out.security_engine_id,
                                                  u_out.credentials)
          IN  u_wire' = [op |-> "deliver", changed |-> "response",
                         message |-> outcome.result.value]
    /\ u_pc' = "received"
    /\ UNCHANGED <<local_config, u_out, u_in, request_id_counter, deviceVars, tableVars, trapVars, taskVars,
                   walkVars, clientVars>>

\* process_incoming_message(message, credentials)
Process ==
    /\ u_pc = "received"
    /\ \E credentials \in UsmCredentials :
          LET outcome == process_incoming_message(u_wire.message, credentials)
          IN  u_in' = [op |-> "process_incoming_message",
                       message |-> u_wire.message,
                       credentials |-> credentials,
                       result |-> outcome.result,
                       calls |-> outcome.calls,
                       hashed |-> outcome.hashed]
    /\ u_pc' = "processed"
    /\ UNCHANGED <<local_config, u_out, u_wire, request_id_counter, deviceVars, tableVars, trapVars, taskVars,
                   walkVars, clientVars>>

\* the caller is done with the exchange
Forget ==
    /\ u_pc \in {"generated", "processed", "discovered"}
    /\ u_pc' = "idle"
    /\ u_out' = NoOutcome
    /\ u_wire' = NoOutcome
    /\ u_in' = NoOutcome
    /\ UNCHANGED <<local_config, request_id_counter, deviceVars, tableVars, trapVars, taskVars, walkVars,
                   clientVars>>

\* puresnmp.pdu.Report
Report(request_id, varbinds) ==
    [tag |-> "Report", request_id |-> request_id, varbinds |-> varbinds]

\* x690.types.Integer and its pythonize()
Integer(value) == <<"Integer", value>>
pythonize(typed) == typed[2]

\* Message.from_sequence after pop_tlv: the message of the bytes
Message_from_sequence(data) ==
    Message(data[2][2],
            HeaderData(data[3][2], V3Flags(data[3][3][1], data[3][3][2], data[3][3][3])),
            data[4][2],
            [tag |-> data[5][1], value |-> Tail(data[5])])

DiscoData(authoritative_engine_id, authoritative_engine_boots, authoritative_engine_time, unknown_engine_ids) ==
    [authoritative_engine_id |-> authoritative_engine_id,
     authoritative_engine_boots |-> authoritative_engine_boots,
     authoritative_engine_time |-> authoritative_engine_time,
     unknown_engine_ids |-> unknown_engine_ids]

\* send_discovery_message up to the transport: the message it builds
discovery_message(request_id) ==
    LET security_params == USMSecurityParameters(<<>>, 0, 0, <<>>, <<>>, <<>>)
    IN  Message(3,
                HeaderData(request_id, V3Flags(FALSE, FALSE, TRUE)),
                USMSecurityParameters_bytes(security_params),
                ScopedPDU(GetRequest(request_id, <<>>)))

\* send_discovery_message without the test of the response id
discovery_unchecked(request_id, raw_response) ==
    LET response_msg == Message_from_sequence(raw_response)
        auth_security_params ==
            USMSecurityParameters_decode(response_msg.security_parameters)
        varbinds == response_msg.scoped_pdu.value[1].varbinds
    IN  IF varbinds = <<>> THEN Raise("IndexError")
        ELSE Ok(DiscoData(auth_security_params.authoritative_engine_id,
                          auth_security_params.authoritative_engine_boots,
                          auth_security_params.authoritative_engine_time,
                          pythonize(varbinds[1].value)))

\* send_discovery_message from the response of the transport on
discovery_returns(request_id, raw_response) ==
    LET response_msg == Message_from_sequence(raw_response)
        response_id == response_msg.scoped_pdu.value[1].request_id
        auth_security_params ==
            USMSecurityParameters_decode(response_msg.security_parameters)
        varbinds == response_msg.scoped_pdu.value[1].varbinds
    IN  IF response_id # request_id
        THEN RaiseWith("SnmpError", <<"Invalid response ID">>)
        ELSE IF varbinds = <<>> THEN Raise("IndexError")
        ELSE Ok(DiscoData(auth_security_params.authoritative_engine_id,
                          auth_security_params.authoritative_engine_boots,
                          auth_security_params.authoritative_engine_time,
                          pythonize(varbinds[1].value)))

\* usmStatsUnknownEngineIDs
UnknownEngineIDs == <<1, 3, 6, 1, 6, 3, 15, 1, 1, 4, 0>>

\* what the transport may hand back to a discovery: the Report of an engine,
\* with the request id of the request or another one, with or without the
\* varbind of the counter
DiscoveryResponses(request_id) ==
    {Message_bytes(
         Message(3,
                 HeaderData(request_id, V3Flags(FALSE, FALSE, FALSE)),
                 USMSecurityParameters_bytes(
                     USMSecurityParameters(engine_id, boots, time, <<>>, <<>>, <<>>)),
                 ScopedPDU(Report(response_id, varbinds)))) :
        engine_id \in Engines, boots \in 1..MaxBoots, time \in 1..MaxTime,
        response_id \in {request_id, get_request_id(request_id)},
        varbinds \in {<<>>, <<VarBind(UnknownEngineIDs, Integer(1))>>}}

\* send_discovery_message(transport_handler) up to `await transport_handler`
Discover ==
    /\ u_pc = "idle"
    /\ ncalls < MaxCalls
    /\ LET request_id == get_request_id(request_id_counter)
       IN  /\ request_id_counter' = request_id
           /\ u_out' = [op |-> "send_discovery_message",
                        request_id |-> request_id,
                        sent |-> <<Message_bytes(discovery_message(request_id))>>]
    /\ ncalls' = ncalls + 1
    /\ UNCHANGED nscopes
    /\ u_pc' = "discovering"
    /\ u_wire' = NoOutcome
    /\ u_in' = NoOutcome
    /\ UNCHANGED <<local_config, deviceVars, tableVars, trapVars, taskVars, walkVars, config, mpm, lcds, scopes,
                   call, done, event>>

\* send_discovery_message from the response on
Discovered ==
    /\ u_pc = "discovering"
    /\ \E raw_response \in DiscoveryResponses(u_out.request_id) :
          /\ u_wire' = [op |-> "response", raw_response |-> raw_response]
          /\ u_in' = [op |-> "send_discovery_message",
                      result |-> discovery_returns(u_out.request_id, raw_response)]
    /\ u_pc' = "discovered"
    /\ UNCHANGED <<local_config, u_out, request_id_counter, deviceVars, tableVars, trapVars, taskVars, walkVars,
                   clientVars>>

-----------------------------------------------------------------------------
(* raw.py: Client._send suspended in `await self.mpm.encode(...)`. The v3    *)
(* MPM runs send_discovery_message through the transport handler of the      *)
(* client; once the engine is known it caches it in its LCD, encodes the     *)
(* request and _send goes on to `await self.sender(...)`. An exception of    *)
(* the discovery leaves _send and the operation.                             *)

\* the discovery of the operation in flight is answered
SendDiscovered ==
    /\ call.op # ""
    /\ call.awaiting = "discovery"
    /\ \E raw_response \in DiscoveryResponses(call.discovery_id) :
          LET disco == discovery_returns(call.discovery_id, raw_response)
              others == EncodingOfTasks(DOMAIN tasks)
          IN  IF disco.exc = ""
              THEN /\ call' = [op |-> call.op, args |-> call.args, pdu |-> call.pdu,
                               request_id |-> call.request_id,
                               awaiting |-> "response"]
                   /\ lcds' = Released([lcds EXCEPT ![call.encode_mpm.lcd] =
                                            mpm_encode(call.encode_mpm, @)], others)
                   /\ done' = done
              ELSE /\ call' = NoCall
                   /\ lcds' = Released(lcds, others)
                   /\ done' = [op |-> call.op, args |-> call.args, answered |-> FALSE,
                               request_id |-> call.request_id, pdu |-> NoPdu,
                               response |-> NoResponse,
                               sent |-> disco, result |-> disco]
    /\ event' = NoEvent
    /\ UNCHANGED <<config, mpm, scopes, ncalls, nscopes, request_id_counter,
                   deviceVars, tableVars, trapVars, taskVars, usmVars, walkVars>>

\* the discovery of task t is answered
TaskDiscovered(t) ==
    /\ tasks[t].pc = "encode"
    /\ \E raw_response \in DiscoveryResponses(tasks[t].discovery_id) :
          LET disco == discovery_returns(tasks[t].discovery_id, raw_response)
              others == EncodingOfCall \cup EncodingOfTasks(DOMAIN tasks \ {t})
          IN  IF disco.exc = ""
              THEN /\ tasks' = [tasks EXCEPT ![t] =
                                   [pc |-> "sender",
                                    request_id |-> tasks[t].request_id,
                                    pdu |-> tasks[t].pdu,
                                    encode_credentials |-> tasks[t].encode_credentials,
                                    encode_mpm |-> tasks[t].encode_mpm]]
                   /\ lcds' = Released([lcds EXCEPT ![tasks[t].encode_mpm.lcd] =
                                            mpm_encode(tasks[t].encode_mpm, @)], others)
              ELSE /\ tasks' = [tasks EXCEPT ![t] =
                                   [pc |-> "failed",
                                    request_id |-> tasks[t].request_id,
                                    sent |-> disco]]
                   /\ lcds' = Released(lcds, others)
    /\ UNCHANGED <<request_id_counter, deviceVars, tableVars, trapVars, walkVars, usmVars,
                   config, mpm, scopes, call, done, event, ncalls, nscopes>>

TaskDiscovers == \E t \in Tasks : TaskDiscovered(t)

-----------------------------------------------------------------------------
(* raw.py: Client.multiwalk, the generator as a state machine. Its states   *)
(* are the points where the code is suspended:                                *)
(*   idle      not called                                                    *)
(*   created   called: the generator object exists, none of its code has run *)
(*   awaiting  suspended in `await fetcher(...)`: the request for w_probes   *)
(*             is sent (w_nfetch counts the requests sent)                   *)
(*   yield     suspended at `yield varbind`: the consumer holds the last     *)
(*             varbind of w_out                                              *)
(*   done      the generator returned (StopAsyncIteration)                   *)
(*   raised    an exception left the generator (w_exc)                       *)
(*   closed    the consumer stopped iterating                                *)
(* w_rest holds the varbinds of the batch that deduped_varbinds has not      *)
(* looked at, w_pending those of them it will yield.                         *)

ERRORS_STRICT == "strict"
ERRORS_WARN == "warn"

\* the lists of roots a walk is called with: any OIDs, also a root twice and
\* a root below another one
RootLists == {r \in SeqsUpTo(OidUniverse, MaxRoots) : r # <<>>}

\* a generator that fetches on before its varbinds are consumed
AfterBatchPrefetching(yield, unfinished_oids) ==
    IF unfinished_oids # <<>> THEN "awaiting"
    ELSE IF yield # <<>> THEN "yield"
    ELSE "done"

\* where the generator is suspended next once `for varbind in
\* deduped_varbinds(...)` is resumed: at the yield of the next varbind (yield)
\* if there is one; else in the next fetch while roots are unfinished
AfterBatch(yield, unfinished_oids) ==
    IF yield # <<>> THEN "yield"
    ELSE IF unfinished_oids # <<>> THEN "awaiting"
    ELSE "done"

\* requests the model lets a walk send: a conformant agent is never cut short
\* (a walk of it that does not end shows as a walk stuck before a fetch)
FetchCap ==
    IF agent = "good" THEN Cardinality(mib) + MaxRoots + 1 ELSE MaxFetches

\* next_fetches = [_[1].value.oid for _ in unfinished_oids]
NextFetches(unfinished_oids) ==
    [i \in DOMAIN unfinished_oids |-> unfinished_oids[i][2].oid]

\* the outcomes of `await fetcher(next_fetches)`
FetcherOutcomes(next_fetches, request_id) ==
    CASE w_fetcher = "getnext" ->
           {multigetnext_returns(next_fetches, request_id, response) :
               response \in DeviceResponses(GetNextRequest(request_id, next_fetches))}
      [] w_fetcher = "bulk" ->
           {bulkwalk_fetcher_returns(next_fetches, w_bulk, request_id, response) :
               response \in DeviceResponses(
                   BulkGetRequest(request_id, 0, w_bulk, next_fetches))}
      [] OTHER ->
           {Ok(vbs) : vbs \in SeqsUpTo(AnyVarBinds, MaxResp)}
           \cup {Raise(e) : e \in {"NoSuchOID", "FaultySNMPImplementation", "SnmpError"}}

\* walk / multiwalk / bulkwalk is called: nothing runs before the first __anext__
Call(oids, fetcher, errors, bulk_size) ==
    /\ w_pc = "idle"
    /\ w_pc' = "created"
    /\ w_oids' = oids
    /\ w_fetcher' = fetcher
    /\ w_errors' = errors
    /\ w_bulk' = bulk_size
    /\ UNCHANGED <<w_probes, w_unfinished, w_yielded, w_rest, w_pending, w_out,
                   w_skipped, w_nfetch, w_exc, request_id_counter, deviceVars,
                   trapVars, taskVars, usmVars, clientVars>>

\* the generator reaches `await fetcher(next_fetches)`: the fetcher draws a
\* request id and sends its request, the generator is suspended until the
\* response comes
AwaitFetcher(next_fetches) ==
    /\ w_nfetch < FetchCap
    /\ w_probes' = next_fetches
    /\ w_nfetch' = w_nfetch + 1
    /\ request_id_counter' =
          IF w_fetcher = "custom" THEN request_id_counter
          ELSE get_request_id(request_id_counter)

\* `for varbind in deduped_varbinds(oids, grouped_oids, yielded): yield varbind`
\* is started or resumed with the varbinds rest of the batch: the skips up to
\* the next varbind to yield are logged and that varbind is handed to the
\* consumer; when the batch has no more to yield, the loop goes on to its
\* next fetch or the generator returns
ForDeduped(rest, unfinished_oids) ==
    LET next == DedupNext(rest, w_oids, w_yielded)
        to == AfterBatch(next.yield, unfinished_oids)
    IN  /\ w_pc' = to
        /\ w_unfinished' = unfinished_oids
        /\ IF to = "yield"
           THEN /\ w_yielded' = w_yielded \cup {next.yield[1].oid}
                /\ w_out' = Append(w_out, next.yield[1])
                /\ w_rest' = next.rest
                /\ w_pending' = DedupFrom(next.rest, w_oids,
                                          w_yielded \cup {next.yield[1].oid})
                /\ w_skipped' = w_skipped \cup next.skipped
                /\ UNCHANGED <<w_probes, w_nfetch, request_id_counter>>
           ELSE /\ w_rest' = next.yield \o next.rest
                /\ w_pending' = DedupFrom(next.yield \o next.rest, w_oids, w_yielded)
                /\ w_skipped' = w_skipped \cup next.skipped
                /\ UNCHANGED <<w_yielded, w_out>>
                /\ IF to = "awaiting"
                   THEN AwaitFetcher(NextFetches(unfinished_oids))
                   ELSE UNCHANGED <<w_probes, w_nfetch, request_id_counter>>

\* the locals of the generator once `await fetcher(next_fetches)` has ended
\* with `got`, before the loop over deduped_varbinds: an exception of the
\* first fetch leaves the generator; in the while loop NoSuchOID ends the
\* walk, FaultySNMPImplementation ends it when errors = "warn", anything else
\* leaves the generator
AfterFetch(got) ==
    IF got.exc # ""
    THEN LET swallowed ==
                 /\ w_nfetch # 1
                 /\ \/ got.exc = "NoSuchOID"
                    \/ got.exc = "FaultySNMPImplementation" /\ w_errors = ERRORS_WARN
         IN  [pc |-> IF swallowed THEN "done" ELSE "raised",
              exc |-> IF swallowed THEN "" ELSE got.exc,
              unfinished |-> w_unfinished,
              rest |-> <<>>]
    ELSE LET grouped_oids ==
                 IF w_nfetch = 1
                 THEN group_varbinds(got.value, w_oids, <<>>)
                 ELSE group_varbinds(got.value, w_probes, w_oids)
         IN  [pc |-> "for",
              exc |-> "",
              unfinished |-> get_unfinished_walk_oids(grouped_oids),
              rest |-> SortedVarbinds(grouped_oids)]

\* the request id of the request the generator waits for
FetchRequestId == IF w_fetcher = "custom" THEN 0 ELSE request_id_counter

\* the fetcher the generator waits for returns or raises: the result is
\* grouped and the loop over deduped_varbinds runs to its first yield; with
\* nothing to yield the generator goes on to the next fetch or returns
Fetched ==
    /\ w_pc = "awaiting"
    /\ \E got \in FetcherOutcomes(w_probes, FetchRequestId) :
          LET after == AfterFetch(got)
          IN  /\ w_exc' = after.exc
              /\ IF after.pc = "for"
                 THEN ForDeduped(after.rest, after.unfinished)
                 ELSE /\ w_pc' = after.pc
                      /\ UNCHANGED <<w_unfinished, w_yielded, w_rest, w_pending, w_out,
                                     w_skipped, w_probes, w_nfetch, request_id_counter>>
    /\ UNCHANGED <<w_oids, w_fetcher, w_errors, w_bulk, deviceVars, tableVars,
                   trapVars, taskVars, usmVars, clientVars>>

\* the consumer asks for the next varbind (__anext__): a generator that has
\* not run starts and is suspended in its first fetch; one that is suspended
\* at a yield goes on with the loop over deduped_varbinds
Anext ==
    /\ \/ /\ w_pc = "created"
          /\ w_pc' = "awaiting"
          /\ AwaitFetcher(w_oids)
          /\ UNCHANGED <<w_unfinished, w_yielded, w_rest, w_pending, w_out, w_skipped>>
       \/ /\ w_pc = "yield"
          /\ ForDeduped(w_rest, w_unfinished)
    /\ UNCHANGED <<w_oids, w_fetcher, w_errors, w_bulk, w_exc, deviceVars, tableVars,
                   trapVars, taskVars, usmVars, clientVars>>

\* the consumer stops iterating (break, aclose) or is cancelled, while the
\* generator has not run, waits for its fetcher or is suspended at a yield
Close ==
    /\ w_pc \in {"created", "awaiting", "yield"}
    /\ w_pc' = "closed"
    /\ UNCHANGED <<w_oids, w_fetcher, w_errors, w_bulk, w_probes, w_unfinished,
                   w_yielded, w_rest, w_pending, w_out, w_skipped, w_nfetch, w_exc,
                   request_id_counter, deviceVars, tableVars, trapVars, taskVars, usmVars, clientVars>>

\* `await fetcher(next_fetches)` of a walk of a conformant agent with MIB m
walk_fetch(m, fetcher, bulk_size, next_fetches) ==
    IF fetcher = "bulk"
    THEN LET pdu == BulkGetRequest(0, 0, bulk_size, next_fetches)
         IN  bulkwalk_fetcher_returns(next_fetches, bulk_size, 0,
                 [request_id |-> 0, varbinds |-> AgentAnswer(m, pdu)])
    ELSE LET pdu == GetNextRequest(0, next_fetches)
         IN  multigetnext_returns(next_fetches, 0,
                 [request_id |-> 0, varbinds |-> AgentAnswer(m, pdu)])

\* the `while unfinished_oids:` loop of multiwalk run to its end (an exception
\* of the fetcher ends it): the varbinds it yields, in order
RECURSIVE walk_loop(_, _, _, _, _, _, _)
walk_loop(m, oids, fetcher, bulk_size, unfinished_oids, yielded, fuel) ==
    IF unfinished_oids = <<>> \/ fuel = 0 THEN <<>>
    ELSE LET next_fetches == [i \in DOMAIN unfinished_oids |-> unfinished_oids[i][2].oid]
             got == walk_fetch(m, fetcher, bulk_size, next_fetches)
         IN  IF got.exc # "" THEN <<>>
             ELSE LET grouped_oids == group_varbinds(got.value, next_fetches, oids)
                      pending == deduped_varbinds(oids, grouped_oids, yielded)
                  IN  pending
                      \o walk_loop(m, oids, fetcher, bulk_size,
                                   get_unfinished_walk_oids(grouped_oids),
                                   yielded \cup {pending[i].oid : i \in DOMAIN pending},
                                   fuel - 1)

\* list(multiwalk(oids, fetcher)) on a conformant agent with MIB m: the first
\* fetch probes the roots, the loop follows
walk_yields(m, oids, fetcher, bulk_size) ==
    LET got == walk_fetch(m, fetcher, bulk_size, oids)
    IN  IF got.exc # "" THEN <<>>
        ELSE LET grouped_oids == group_varbinds(got.value, oids, <<>>)
                 pending == deduped_varbinds(oids, grouped_oids, {})
             IN  pending
                 \o walk_loop(m, oids, fetcher, bulk_size,
                              get_unfinished_walk_oids(grouped_oids),
                              {pending[i].oid : i \in DOMAIN pending},
                              Cardinality(m) + MaxRoots)

\* ".".join(str(node) for node in nodes)
RECURSIVE JoinNodes(_)
JoinNodes(nodes) ==
    IF nodes = <<>> THEN ""
    ELSE IF Len(nodes) = 1 THEN ToString(Head(nodes))
    ELSE ToString(Head(nodes)) \o "." \o JoinNodes(Tail(nodes))

\* the rows of tablify as a dict from row id to row, varbind by varbind: past
\* the base nodes an OID holds the column and then the row id; a row is a dict
\* from column string to value whose key "0" holds the row id
RECURSIVE TablifyFrom(_, _, _)
TablifyFrom(varbinds, num_base_nodes, rows) ==
    IF varbinds = <<>> THEN rows
    ELSE LET oid == Head(varbinds).oid
             tail == SubSeq(oid, num_base_nodes + 1, Len(oid))
             col_id == ToString(Head(tail))
             row_id == JoinNodes(Tail(tail))
             row == IF HasKey(rows, row_id) THEN DictGet(rows, row_id)
                    ELSE << <<"0", row_id>> >>
         IN  TablifyFrom(Tail(varbinds), num_base_nodes,
                         DictPut(rows, row_id, DictPut(row, col_id, Head(varbinds).value)))

\* tablify(varbinds, num_base_nodes): the rows, in the order their first
\* varbind came (for OIDs longer than the base nodes)
tablify(varbinds, num_base_nodes) ==
    LET rows == TablifyFrom(varbinds, num_base_nodes, <<>>)
    IN  [i \in DOMAIN rows |-> rows[i][2]]

\* Client.table(oid) on a conformant agent with MIB m
table_returns(m, oid) ==
    tablify(walk_yields(m, <<oid>>, "getnext", 0), Len(oid))

\* Client.bulktable(oid, bulk_size) on a conformant agent with MIB m
bulktable_returns(m, oid, bulk_size) ==
    tablify(walk_yields(m, <<oid>>, "bulk", bulk_size), Len(oid) + 1)

\* no table has been asked for
InitTableVars ==
    /\ t_call = NoCall
    /\ t_result = NoDone

\* no walk has been called
InitWalkVars ==
    /\ w_pc = "idle"
    /\ w_oids = <<>>
    /\ w_fetcher = ""
    /\ w_errors = ""
    /\ w_bulk = 0
    /\ w_probes = <<>>
    /\ w_unfinished = <<>>
    /\ w_yielded = {}
    /\ w_rest = <<>>
    /\ w_pending = <<>>
    /\ w_out = <<>>
    /\ w_skipped = {}
    /\ w_nfetch = 0
    /\ w_exc = ""

InitWalk ==
    /\ request_id_counter = MaxRequestId - 1
    /\ \/ agent = "good" /\ mib \in Mibs
       \/ agent = "any" /\ mib = {}
    /\ InitWalkVars
    /\ InitUsmVars
    /\ InitTaskVars
    /\ InitTrapVars
    /\ InitTableVars
    /\ InitClient(Credentials("V2C", "public"))

CallWalk ==
    /\ \E oids \in RootLists, errors \in {ERRORS_STRICT, ERRORS_WARN} :
          Call(oids, "getnext", errors, 0)
    /\ UNCHANGED tableVars

CallBulkwalk ==
    /\ \E oids \in RootLists, bulk_size \in 1..MaxBulk :
          Call(oids, "bulk", ERRORS_STRICT, bulk_size)
    /\ UNCHANGED tableVars

CallCustom ==
    /\ agent = "any"
    /\ \E oids \in RootLists, errors \in {ERRORS_STRICT, ERRORS_WARN} :
          Call(oids, "custom", errors, 0)
    /\ UNCHANGED tableVars

NextWalk == CallWalk \/ CallBulkwalk \/ CallCustom \/ Anext \/ Fetched \/ Close

SpecWalk == InitWalk /\ [][NextWalk]_vars

-----------------------------------------------------------------------------
(* raw.py: Client.table, Client.bulktable: a walk of one root collected in   *)
(* `tmp` and handed to tablify                                               *)

\* the OIDs tables are asked for, and the MIBs they are read from: every
\* entry is <<table, column, row>>
TableOids == {<<1>>, <<2>>}
TableEntries == {<<1, 1, 1>>, <<1, 1, 2>>, <<1, 2, 1>>, <<1, 2, 2>>, <<2, 1, 1>>}

\* table(oid): varbinds = self.walk(oid)
CallTable ==
    /\ \E oid \in TableOids :
          /\ Call(<<oid>>, "getnext", ERRORS_STRICT, 0)
          /\ t_call' = [op |-> "table", oid |-> oid, bulk_size |-> 0]
    /\ UNCHANGED t_result

\* bulktable(oid, bulk_size): varbinds = self.bulkwalk([oid], bulk_size=bulk_size)
CallBulktable ==
    /\ \E oid \in TableOids, bulk_size \in 1..MaxBulk :
          /\ Call(<<oid>>, "bulk", ERRORS_STRICT, bulk_size)
          /\ t_call' = [op |-> "bulktable", oid |-> oid, bulk_size |-> bulk_size]
    /\ UNCHANGED t_result

\* the num_base_nodes the call hands to tablify
num_base_nodes_of(c) == IF c.op = "bulktable" THEN Len(c.oid) + 1 ELSE Len(c.oid)

\* the walk has ended: as_table = tablify(tmp, num_base_nodes=...); an
\* exception of the walk leaves the call
TableReturn ==
    /\ t_call.op # ""
    /\ t_result.op = ""
    /\ w_pc \in {"done", "raised"}
    /\ t_result' =
          IF w_pc = "raised"
          THEN [op |-> t_call.op, exc |-> w_exc, tmp |-> w_out,
                num_base_nodes |-> 0, as_table |-> <<>>]
          ELSE [op |-> t_call.op, exc |-> "", tmp |-> w_out,
                num_base_nodes |-> num_base_nodes_of(t_call),
                as_table |-> tablify(w_out, num_base_nodes_of(t_call))]
    /\ UNCHANGED <<t_call, request_id_counter, deviceVars, walkVars, clientVars,
                   usmVars, taskVars, trapVars>>

InitTable ==
    /\ request_id_counter = MaxRequestId - 1
    /\ agent = "good"
    /\ mib \in SUBSET TableEntries
    /\ InitWalkVars
    /\ InitUsmVars
    /\ InitTaskVars
    /\ InitTrapVars
    /\ InitTableVars
    /\ InitClient(Credentials("V2C", "public"))

NextTable == CallTable \/ CallBulktable \/ Anext \/ Fetched \/ TableReturn

SpecTable == InitTable /\ [][NextTable]_vars

\* a client used by tasks that send requests and reconfigure it
InitRequests ==
    /\ request_id_counter = MaxRequestId - 1
    /\ \/ agent = "good" /\ mib = RequestMib
       \/ agent = "any" /\ mib = {}
    /\ InitWalkVars
    /\ InitUsmVars
    /\ InitTaskVars
    /\ InitTrapVars
    /\ InitTableVars
    /\ \E credentials \in {Credentials("V2C", "public"), Credentials("V3", "user")} :
          InitClient(credentials)

NextRequests ==
    \/ Enter \/ Leave
    \/ Get \/ Multiget \/ Multigetnext \/ Getnext \/ Set \/ Multiset \/ Bulkget
    \/ SendDiscovered \/ Receive \/ Cancel

SpecClient == InitRequests /\ [][NextRequests]_vars

\* a client shared by tasks that send requests, while reconfigure scopes are
\* entered and left
InitTasks ==
    /\ request_id_counter = MaxRequestId - 1
    /\ agent = "good"
    /\ mib = RequestMib
    /\ InitWalkVars
    /\ InitUsmVars
    /\ InitTaskVars
    /\ InitTrapVars
    /\ InitTableVars
    /\ \E credentials \in {Credentials("V2C", "public"), Credentials("V3", "user")} :
          InitClient(credentials)

NextTasks ==
    \/ TaskSends \/ TaskDiscovers \/ TaskReceives \/ TaskCancels \/ TaskEnds
    \/ Enter \/ Leave

SpecTasks == InitTasks /\ [][NextTasks]_vars

\* a trap listener and the datagrams that reach it
InitTrap ==
    /\ request_id_counter = MaxRequestId - 1
    /\ agent = "good"
    /\ mib = RequestMib
    /\ InitWalkVars
    /\ InitUsmVars
    /\ InitTaskVars
    /\ InitTrapVars
    /\ InitTableVars
    /\ InitClient(Credentials("V2C", "public"))

NextTrap == Listen \/ Datagram

SpecTrap == InitTrap /\ [][NextTrap]_vars

\* a security model whose engine timings are set and that secures requests
\* and processes what comes back
InitUsm ==
    /\ request_id_counter = MaxRequestId - 1
    /\ agent = "good"
    /\ mib = RequestMib
    /\ InitWalkVars
    /\ InitClient(Credentials("V3", "user"))
    /\ InitUsmVars
    /\ InitTaskVars
    /\ InitTrapVars
    /\ InitTableVars

NextUsm ==
    \/ SetEngineTiming \/ Generate \/ Deliver \/ Respond \/ Process \/ Forget
    \/ Discover \/ Discovered

SpecUsm == InitUsm /\ [][NextUsm]_vars

-----------------------------------------------------------------------------
(* Properties of the walk *)

\* the positions of w_out whose OID lies below the root
Under(root) == {i \in DOMAIN w_out : Contains(root, w_out[i].oid)}

\* C1: whatever the roots and whatever the fetcher returns (repeated OIDs,
\* OIDs outside of the requested trees, the roots themselves), every OID the
\* walk yields is yielded once and is prefix-contained by one of the requested
\* roots: the root's nodes are a prefix of it and it is not the root.
C1_YieldedOnceBelowARoot ==
    /\ \A i, j \in DOMAIN w_out : i # j => w_out[i].oid # w_out[j].oid
    /\ \A i \in DOMAIN w_out :
          \E k \in DOMAIN w_oids : Contains(w_oids[k], w_out[i].oid)

\* C1 witness: a walk over an arbitrary fetcher that has yielded varbinds and
\* has skipped both a repeated OID and an OID outside of the requested trees
C1_Witness ==
    /\ w_fetcher = "custom"
    /\ Len(w_out) >= 2
    /\ w_skipped = {"not contained", "more than once"}

\* C2: in a walk with the GetNext fetcher or the bulk fetcher the OIDs yielded
\* below one root are strictly ascending over the whole walk.
C2_AscendingBelowEachRoot ==
    w_fetcher \in {"getnext", "bulk"} =>
        \A k \in DOMAIN w_oids :
            \A i, j \in Under(w_oids[k]) :
                i < j => OidLess(w_out[i].oid, w_out[j].oid)

OutOids == {w_out[i].oid : i \in DOMAIN w_out}

\* C3: on a conformant agent a finished multiwalk has yielded every MIB entry
\* that lies below one of the roots, and nothing but MIB entries of the
\* requested trees.
C3_YieldsEveryEntryBelowTheRoots ==
    (agent = "good" /\ w_fetcher = "getnext" /\ w_pc = "done") =>
        /\ \A e \in mib :
              (\E k \in DOMAIN w_oids : Contains(w_oids[k], e))
                  => e \in OutOids
        /\ \A o \in OutOids :
              o \in mib /\ \E k \in DOMAIN w_oids : Contains(w_oids[k], o)

\* C4: on a conformant agent a walk that is consumed ends: no root is left
\* unfinished, and a finished walk issues no fetch.
C4_WalkTerminates ==
    /\ (agent = "good" /\ w_pc \in {"created", "awaiting", "yield"})
           ~> (w_pc = "done" /\ w_unfinished = <<>>)
    /\ [][w_pc = "done" => w_nfetch' = w_nfetch]_vars

\* C4 witness: a walk of two roots on a conformant agent that has ended after
\* several fetches and has yielded varbinds
C4_Witness ==
    /\ agent = "good"
    /\ w_pc = "done"
    /\ Len(w_oids) = 2
    /\ w_nfetch >= 2
    /\ Len(w_out) >= 2

\* walks of a conformant agent whose consumer keeps consuming: every await
\* and every __anext__ is eventually served
InitConformant == InitWalk /\ agent = "good"

NextConsumed == CallWalk \/ CallBulkwalk \/ Anext \/ Fetched

\* the resumed loop over deduped_varbinds can take its step: it sends a
\* request only below the cap
ForDedupedEnabled(rest, unfinished_oids) ==
    AfterBatch(DedupNext(rest, w_oids, w_yielded).yield, unfinished_oids) = "awaiting"
        => w_nfetch < FetchCap

\* Weak fairness of Fetched and of Anext, WF_vars(Fetched) and
\* WF_vars(Anext), written out: each is enabled exactly when its guards hold
\* (the device always answers), and each leaves the state it starts in
FetchedEnabled ==
    /\ w_pc = "awaiting"
    /\ \E got \in FetcherOutcomes(w_probes, FetchRequestId) :
          AfterFetch(got).pc = "for"
              => ForDedupedEnabled(AfterFetch(got).rest, AfterFetch(got).unfinished)

AnextEnabled ==
    \/ w_pc = "created"
    \/ w_pc = "yield" /\ ForDedupedEnabled(w_rest, w_unfinished)

FairFetch ==
    \/ []<>(~FetchedEnabled)
    \/ []<><<w_pc = "awaiting" /\ Fetched>>_vars

FairAnext ==
    \/ []<>(~AnextEnabled)
    \/ []<><<w_pc \in {"created", "yield"} /\ Anext>>_vars

ConsumedWalk ==
    /\ InitConformant
    /\ [][NextConsumed]_vars
    /\ FairFetch
    /\ FairAnext

-----------------------------------------------------------------------------
(* Properties of the requests and of reconfigure *)

\* C5: _send returns no response whose request id differs from the one it was
\* called with: on a mismatch _send and the operation fail with SnmpError and
\* nothing of the response is returned.
C5_SendRejectsOtherRequestIds ==
    (done.op # "" /\ done.answered) =>
        /\ done.sent.exc = "" => done.sent.value.request_id = done.request_id
        /\ done.response.request_id # done.request_id =>
              /\ done.sent.exc = "SnmpError"
              /\ done.result.exc = "SnmpError"
              /\ done.result.value = <<>>

\* C5 witness: get has received a response with varbinds under another
\* request id, and has failed
C5_Witness ==
    /\ done.op = "get"
    /\ done.answered
    /\ done.response.request_id # done.request_id
    /\ done.response.varbinds # <<>>
    /\ done.result.exc = "SnmpError"

\* C6: the request id inside the PDU an operation sends is the request id the
\* response is correlated against, so a response that echoes the PDU's request
\* id is accepted.
C6_PduCarriesTheCorrelationId ==
    /\ call.op # "" => call.pdu.request_id = call.request_id
    /\ (done.op # "" /\ done.answered
          /\ done.response.request_id = done.pdu.request_id) => done.sent.exc = ""

\* C7: a reconfigure scope snapshots config and mpm when it is entered, no
\* step but its own exit touches the snapshot, and every exit (normal, error,
\* cancellation, mpm.create raising) leaves config and mpm as they were on
\* entry; the scopes around it stay as they are.
C7_ReconfigureRestores ==
    [][/\ event'.kind = "entered" =>
              /\ scopes' = Append(scopes, Last(scopes'))
              /\ Last(scopes').old_config = config
              /\ Last(scopes').old_mpm = mpm
       /\ event'.kind = "failed" =>
              /\ config' = config
              /\ mpm' = mpm
              /\ scopes' = scopes
       /\ event'.kind = "left" =>
              \E i \in DOMAIN scopes :
                  /\ config' = scopes[i].old_config
                  /\ mpm' = scopes[i].old_mpm
                  /\ scopes' = Without(scopes, i)
       /\ event'.kind = "" => scopes' = scopes]_vars

\* C7 witness: a nested scope that had replaced the MPM was left by
\* cancellation, the scope around it is still open
C7_Witness ==
    /\ event.kind = "left"
    /\ event.how = "cancelled"
    /\ event.rebuilt
    /\ Len(scopes) = 1
    /\ config # Last(scopes).old_config

\* C8: entering a reconfigure scope replaces the MPM by a new one of the new
\* variant with a new, empty LCD exactly when the override has credentials of
\* another variant than the current ones; otherwise the MPM and every LCD stay
\* as they are.
C8_MpmRebuiltIffVariantDiffers ==
    [][event'.kind = "entered" =>
          LET kwargs == Last(scopes').kwargs
              differs ==
                  /\ HasKey(kwargs, "credentials")
                  /\ DictGet(kwargs, "credentials").variant # config.credentials.variant
          IN  IF differs
              THEN /\ mpm'.id \notin LiveMpms(mpm, scopes)
                   /\ mpm'.variant = DictGet(kwargs, "credentials").variant
                   /\ mpm'.lcd \notin LiveLcds(config, mpm, scopes)
                   /\ lcds'[mpm'.lcd] = {}
                   /\ \A i \in LiveLcds(config, mpm, scopes) : lcds'[i] = lcds[i]
              ELSE /\ mpm' = mpm
                   /\ lcds' = lcds]_vars

\* C8 witness: a scope was entered with credentials of another variant while
\* the LCD of the MPM in use held an engine: the new MPM's LCD is empty
C8_Witness ==
    /\ event.kind = "entered"
    /\ event.rebuilt
    /\ lcds[Last(scopes).old_mpm.lcd] # {}
    /\ lcds[mpm.lcd] = {}

\* C9: multiget returns the values of the response's varbinds in the order of
\* the response, len(oids) of them; a response with another number of
\* varbinds makes it fail with SnmpError.
C9_MultigetValuesInResponseOrder ==
    (done.op = "multiget" /\ done.sent.exc = "") =>
        IF Len(done.response.varbinds) = Len(done.args)
        THEN /\ done.result.exc = ""
             /\ Len(done.result.value) = Len(done.args)
             /\ \A i \in DOMAIN done.response.varbinds :
                   done.result.value[i] = done.response.varbinds[i].value
        ELSE /\ done.result.exc = "SnmpError"
             /\ done.result.value = <<>>

\* C9 witness: multiget of two OIDs has returned two different values
C9_Witness ==
    /\ done.op = "multiget"
    /\ done.result.exc = ""
    /\ Len(done.result.value) = 2
    /\ done.result.value[1] # done.result.value[2]

\* C10: get raises NoSuchOID(oid) exactly when the one value of the response
\* is NoSuchObject or NoSuchInstance; any other value it returns; it returns
\* neither marker.
C10_GetRaisesNoSuchOID ==
    done.op = "get" =>
        LET answered_one == done.sent.exc = "" /\ Len(done.response.varbinds) = 1
            markers == {NoSuchObject, NoSuchInstance}
        IN  /\ answered_one =>
                  IF done.response.varbinds[1].value \in markers
                  THEN /\ done.result.exc = "NoSuchOID"
                       /\ done.result.value = done.args
                  ELSE /\ done.result.exc = ""
                       /\ done.result.value = done.response.varbinds[1].value
            /\ done.result.exc = "NoSuchOID" =>
                  answered_one /\ done.response.varbinds[1].value \in markers
            /\ done.result.exc = "" => done.result.value \notin markers

\* C10 witness: the device has answered get with NoSuchInstance
C10_Witness ==
    /\ done.op = "get"
    /\ done.result.exc = "NoSuchOID"
    /\ done.response.varbinds[1].value = NoSuchInstance

-----------------------------------------------------------------------------
(* Properties of multigetnext *)

\* multigetnext has received a response under its request id
GetNextAnswered == done.op = "multigetnext" /\ done.sent.exc = ""

\* ... with as many varbinds as OIDs were requested
GetNextAnsweredInFull ==
    GetNextAnswered /\ Len(done.response.varbinds) = Len(done.args)

\* the positions of the response before its first EndOfMibView value
BeforeEndOfMibView(varbinds) ==
    {i \in DOMAIN varbinds : \A j \in 1..i : varbinds[j].value # EndOfMibView}

\* the varbinds of the response whose value is not EndOfMibView
WithoutEndOfMibView(varbinds) ==
    SelectAt(varbinds, {i \in DOMAIN varbinds : varbinds[i].value # EndOfMibView}, 1)

\* C11: multigetnext fails with FaultySNMPImplementation if any OID the device
\* returned (with a value other than EndOfMibView) is not strictly greater
\* than the OID requested at its position; what it returns is strictly
\* greater, position by position.
C11_AnyReturnedOidIsASuccessor ==
    GetNextAnsweredInFull =>
        /\ (\E i \in DOMAIN done.response.varbinds :
               /\ done.response.varbinds[i].value # EndOfMibView
               /\ ~OidLess(done.args[i], done.response.varbinds[i].oid))
              => done.result.exc = "FaultySNMPImplementation"
        /\ done.result.exc = "" =>
              \A i \in DOMAIN done.result.value :
                  OidLess(done.args[i], done.result.value[i].oid)

\* the test multigetnext makes (raw.py 520-525): it fails with
\* FaultySNMPImplementation exactly when a varbind before the first
\* EndOfMibView of the response has an OID that is not strictly greater than
\* the OID requested at its position; the varbinds from the first
\* EndOfMibView on are not looked at
KeptOidsAreSuccessors ==
    GetNextAnsweredInFull =>
        /\ done.result.exc = "FaultySNMPImplementation" <=>
              \E i \in BeforeEndOfMibView(done.response.varbinds) :
                  ~OidLess(done.args[i], done.response.varbinds[i].oid)
        /\ done.result.exc = "" =>
              \A i \in DOMAIN done.result.value :
                  OidLess(done.args[i], done.result.value[i].oid)

\* a varbind with a value, no successor of the OID requested at its position,
\* stands behind an EndOfMibView and multigetnext has returned normally
UncheckedBehindEndOfMibView ==
    /\ GetNextAnsweredInFull
    /\ done.result.exc = ""
    /\ \E i \in DOMAIN done.response.varbinds :
          /\ i \notin BeforeEndOfMibView(done.response.varbinds)
          /\ done.response.varbinds[i].value # EndOfMibView
          /\ ~OidLess(done.args[i], done.response.varbinds[i].oid)

\* C12: multigetnext fails with SnmpError unless the response has len(oids)
\* varbinds; else it returns, in order, every varbind of the response whose
\* value is not EndOfMibView, also those behind an EndOfMibView.
C12_OnlyEndOfMibViewDropped ==
    GetNextAnswered =>
        /\ Len(done.response.varbinds) # Len(done.args) =>
              done.result.exc = "SnmpError"
        /\ done.result.exc = "" =>
              done.result.value = WithoutEndOfMibView(done.response.varbinds)

-----------------------------------------------------------------------------
(* Properties of bulkget *)

\* bulkget has received a response under its request id
BulkAnswered == done.op = "bulkget" /\ done.sent.exc = ""

\* n + m * r for the bulkget that ended
BulkCeiling ==
    Len(done.args.scalar_oids)
    + done.args.max_list_size * Len(done.args.repeating_oids)

\* C13: bulkget fails with SnmpError exactly when the response has more than
\* n + m*r varbinds; every response with at most that many is accepted, and
\* the BulkResult returned holds at most n + m*r entries.
C13_BulkCeiling ==
    BulkAnswered =>
        /\ Len(done.response.varbinds) > BulkCeiling => done.result.exc = "SnmpError"
        /\ Len(done.response.varbinds) <= BulkCeiling => done.result.exc = ""
        /\ done.result.exc = "" =>
              Len(done.result.value.scalars) + Len(done.result.value.listing)
                  <= BulkCeiling

\* C13 witness: a response with more than n + m*r varbinds was refused
C13_Witness ==
    /\ BulkAnswered
    /\ Len(done.response.varbinds) > BulkCeiling
    /\ done.result.exc = "SnmpError"

\* the dict `d` holds the varbinds at the positions `kept` of `varbinds`: the
\* OIDs in the order in which they come first, each with the value that came
\* last
HoldsInWireOrder(d, varbinds, kept) ==
    /\ {d[i][1] : i \in DOMAIN d} = {varbinds[j].oid : j \in kept}
    /\ \A i, k \in DOMAIN d : i # k => d[i][1] # d[k][1]
    /\ \A i, k \in DOMAIN d :
          i < k => \E j \in kept :
                      /\ varbinds[j].oid = d[i][1]
                      /\ \A l \in kept : varbinds[l].oid = d[k][1] => j < l
    /\ \A i \in DOMAIN d :
          \E j \in kept :
              /\ varbinds[j].oid = d[i][1]
              /\ varbinds[j].value = d[i][2]
              /\ \A l \in kept : varbinds[l].oid = d[i][1] => l <= j

\* C14: the scalars of a BulkResult are the first len(scalar_oids) varbinds of
\* the response, the listing the varbinds behind them up to the first
\* EndOfMibView value, in the order of the response; the listing holds no
\* EndOfMibView value.
C14_ListingInWireOrder ==
    (BulkAnswered /\ done.result.exc = "") =>
        LET varbinds == done.response.varbinds
            n == Len(done.args.scalar_oids)
            listed == {j \in DOMAIN varbinds :
                          /\ j > n
                          /\ \A l \in (n + 1)..j : varbinds[l].value # EndOfMibView}
        IN  /\ HoldsInWireOrder(done.result.value.scalars, varbinds,
                                {j \in DOMAIN varbinds : j <= n})
            /\ HoldsInWireOrder(done.result.value.listing, varbinds, listed)
            /\ \A i \in DOMAIN done.result.value.listing :
                  done.result.value.listing[i][2] # EndOfMibView

\* C14 witness: a listing of two OIDs in the order of the response, which is
\* not the order of the OIDs
C14_Witness ==
    /\ BulkAnswered
    /\ done.result.exc = ""
    /\ Len(done.result.value.listing) = 2
    /\ done.result.value.listing[1][1] = done.response.varbinds[1].oid
    /\ OidLess(done.result.value.listing[2][1], done.result.value.listing[1][1])

-----------------------------------------------------------------------------
(* Errors of the fetches of a walk *)

\* the step is the one in which the fetch the generator waited for ended
\* with `got`
FetchEndedWith(got) ==
    LET after == AfterFetch(got)
        next == DedupNext(after.rest, w_oids, w_yielded)
    IN  /\ w_pc = "awaiting"
        /\ w_exc' = after.exc
        /\ IF after.pc = "for"
           THEN /\ w_pc' = AfterBatch(next.yield, after.unfinished)
                /\ w_unfinished' = after.unfinished
                /\ w_out' = w_out \o next.yield
                /\ w_skipped' = w_skipped \cup next.skipped
           ELSE /\ w_pc' = after.pc
                /\ w_unfinished' = w_unfinished
                /\ w_out' = w_out

\* the walk ends without an error, everything fetched before being yielded
EndsCleanly ==
    /\ w_pc' = "done"
    /\ w_exc' = ""
    /\ w_pending = <<>>
    /\ w_out' = w_out

\* C16: whichever fetch of a walk raises (the first included),
\* FaultySNMPImplementation reaches the consumer when errors = strict and ends
\* the walk without an error when errors = warn, and NoSuchOID ends the walk
\* without an error.
C16_FetchErrorsOfAnyFetch ==
    [][\A got \in FetcherOutcomes(w_probes, FetchRequestId) :
          FetchEndedWith(got) =>
             /\ (got.exc = "FaultySNMPImplementation" /\ w_errors = ERRORS_STRICT)
                   => (w_pc' = "raised" /\ w_exc' = "FaultySNMPImplementation")
             /\ (got.exc = "FaultySNMPImplementation" /\ w_errors = ERRORS_WARN)
                   => EndsCleanly
             /\ got.exc = "NoSuchOID" => EndsCleanly]_vars

-----------------------------------------------------------------------------
(* Properties of set and multiset *)

\* C15: set and multiset fail with TypeError exactly when a value of the
\* mapping is no typed SNMP value, and the failing call draws no request id,
\* encodes no PDU (the LCDs stay as they are) and leaves nothing in flight.
C15_TypeErrorBeforeAnythingIsSent ==
    /\ [](done.op \in {"set", "multiset"} =>
            /\ done.result.exc = "TypeError" <=>
                  \E i \in DOMAIN done.args : done.args[i][2] \notin TypedValues
            /\ done.result.exc = "TypeError" =>
                  ~done.answered /\ done.pdu = NoPdu /\ call.op = "")
    /\ [][(done'.op \in {"set", "multiset"} /\ done'.result.exc = "TypeError") =>
            /\ request_id_counter' = request_id_counter
            /\ call.op = "" /\ call'.op = ""
            /\ lcds' = lcds
            /\ mpm' = mpm]_vars

\* C15 witness: set with an untyped value has failed after an earlier request
\* had drawn a request id
C15_Witness ==
    /\ done.op = "set"
    /\ done.result.exc = "TypeError"
    /\ ncalls = 2
    /\ request_id_counter = MaxRequestId
    /\ call.op = ""

-----------------------------------------------------------------------------
(* Properties of the user-based security model *)

\* the message that generate_request_message returned was processed as it
\* was, with the credentials it was generated with
RoundTrip ==
    /\ u_pc = "processed"
    /\ u_wire.changed = ""
    /\ u_out.credentials.variant = "V3"
    /\ u_in.credentials = u_out.credentials

\* auth set iff credentials.auth present, priv set iff credentials.priv present
FlagsMatch(flags, credentials) ==
    /\ flags.auth <=> credentials.auth # None
    /\ flags.priv <=> credentials.priv # None

\* C17: for the levels noAuthNoPriv, authNoPriv and authPriv, a message whose
\* flags match the credentials comes back from process_incoming_message with
\* the scoped PDU it had when handed to generate_request_message.
C17_RoundTripKeepsScopedPdu ==
    (/\ RoundTrip
     /\ FlagsMatch(u_out.message.global_data.flags, u_out.credentials)
     /\ (u_out.credentials.priv # None => u_out.credentials.auth # None))
    => /\ u_in.result.exc = ""
       /\ u_in.result.value.scoped_pdu = u_out.message.scoped_pdu

\* the parts of a message that the digest covers
SignedRange ==
    {"message_id", "flags.auth", "flags.priv", "engine_id", "engine_boots",
     "user_name", "priv_params", "scoped_pdu"}

\* a message that was signed, changed in its signed range and processed, with
\* flags.auth set, under the credentials it was signed with
ChangedAfterSigning ==
    /\ u_pc = "processed"
    /\ u_out.credentials.variant = "V3"
    /\ u_out.credentials.auth # None
    /\ u_in.credentials = u_out.credentials
    /\ u_wire.changed \in SignedRange
    /\ u_wire.message.global_data.flags.auth

Invoked(calls, primitive) == \E i \in DOMAIN calls : calls[i] = primitive

\* C18 as stated: whichever part of the signed range was changed,
\* process_incoming_message fails with an authentication failure, decrypts
\* nothing and returns no message.
C18_ChangedMessageFailsAuthentication ==
    ChangedAfterSigning =>
        /\ u_in.result.exc = "SnmpError"
        /\ u_in.result.value = <<"authenticationFailure">>
        /\ ~Invoked(u_in.calls, "decrypt_data")

\* C18 amended: a message with flags.auth that was changed in its signed range
\* is refused and nothing of it is decrypted: as unknown user when the change
\* is in user_name, else with an authentication failure; and whenever a
\* message with flags.auth is decrypted, its digest was verified before.
C18_ChangedMessageIsRefusedUndecrypted ==
    /\ ChangedAfterSigning =>
          /\ u_in.result.exc = "SnmpError"
          /\ u_in.result.value =
                IF u_wire.changed = "user_name" THEN <<"Unknown User">>
                ELSE <<"authenticationFailure">>
          /\ ~Invoked(u_in.calls, "decrypt_data")
    /\ (/\ u_pc = "processed"
        /\ u_wire.message.global_data.flags.auth
        /\ Invoked(u_in.calls, "decrypt_data"))
       => /\ u_in.calls = <<"authenticate_incoming_message", "decrypt_data">>
          /\ authenticate_incoming_message(
                 u_in.credentials.auth.method, u_in.credentials.auth.key,
                 u_in.hashed,
                 USMSecurityParameters_decode(
                     u_wire.message.security_parameters).auth_params,
                 USMSecurityParameters_decode(
                     u_wire.message.security_parameters).authoritative_engine_id).exc = ""

\* C18 witness: an encrypted and signed message whose ciphertext was changed
\* has been refused with an authentication failure
C18_Witness ==
    /\ ChangedAfterSigning
    /\ u_wire.changed = "scoped_pdu"
    /\ u_wire.message.global_data.flags.priv
    /\ u_wire.message.scoped_pdu.tag = "OctetString"
    /\ u_in.credentials.priv # None
    /\ u_in.result.exc = "SnmpError"
    /\ u_in.calls = <<"authenticate_incoming_message">>

\* the message with twelve zero bytes in the place of auth_params and
\* everything else as it is
ZeroFilled(message) ==
    LET secparams == USMSecurityParameters_decode(message.security_parameters)
    IN  Message(message.version, message.global_data,
                USMSecurityParameters_bytes(
                    USMSecurityParameters(secparams.authoritative_engine_id,
                                          secparams.authoritative_engine_boots,
                                          secparams.authoritative_engine_time,
                                          secparams.user_name,
                                          Zeros12,
                                          secparams.priv_params)),
                message.scoped_pdu)

\* generate_request_message has returned a message for credentials with auth
Signed ==
    /\ u_pc = "generated"
    /\ u_out.credentials.variant = "V3"
    /\ u_out.credentials.auth # None
    /\ u_out.result.exc = ""

\* C19: the bytes that are hashed are the serialization of the returned
\* message with auth_params replaced by twelve zero bytes, the digest of these
\* bytes is what auth_params holds, and with privacy the encryption comes
\* first: the hashed message carries the ciphertext and the salt.
C19_DigestCoversTheFinalMessage ==
    Signed =>
        LET returned == u_out.result.value
            secparams == USMSecurityParameters_decode(returned.security_parameters)
        IN  /\ u_out.hashed = Message_bytes(ZeroFilled(returned))
            /\ secparams.auth_params =
                  authenticate_outgoing_message(
                      u_out.credentials.auth.method, u_out.credentials.auth.key,
                      u_out.hashed, u_out.security_engine_id)
            /\ u_out.credentials.priv # None =>
                  /\ u_out.calls = <<"encrypt_data", "authenticate_outgoing_message">>
                  /\ returned.scoped_pdu.tag = "OctetString"
                  /\ secparams.priv_params # <<>>
                  /\ decrypt_data(u_out.credentials.priv.method,
                                  u_out.credentials.priv.key,
                                  returned.scoped_pdu.value,
                                  u_out.security_engine_id,
                                  secparams.priv_params)
                        = scoped_pdu_bytes(u_out.message.scoped_pdu)
            /\ u_out.credentials.priv = None =>
                  /\ u_out.calls = <<"authenticate_outgoing_message">>
                  /\ returned.scoped_pdu = u_out.message.scoped_pdu

\* C19 witness: a message has been encrypted and signed
C19_Witness ==
    /\ Signed
    /\ u_out.credentials.priv # None
    /\ u_out.calls = <<"encrypt_data", "authenticate_outgoing_message">>
    /\ u_out.result.value.scoped_pdu.tag = "OctetString"

\* process_incoming_message has ended for V3 credentials whose username is
\* not the user_name of the message
OtherUser ==
    /\ u_pc = "processed"
    /\ u_in.credentials.variant = "V3"
    /\ USMSecurityParameters_decode(u_in.message.security_parameters).user_name
          # encode(u_in.credentials.username)

\* C20: a message whose user_name is not the username of the credentials is
\* refused as unknown user, and neither authenticate_incoming_message nor
\* decrypt_data is invoked for it; no other message is refused as unknown user.
C20_UnknownUserBeforeAuthentication ==
    /\ OtherUser =>
          /\ u_in.result.exc = "SnmpError"
          /\ u_in.result.value = <<"Unknown User">>
          /\ u_in.calls = <<>>
    /\ (/\ u_pc = "processed"
        /\ u_in.result.exc = "SnmpError"
        /\ u_in.result.value = <<"Unknown User">>)
       => OtherUser

\* C20 witness: a signed and encrypted message was refused as unknown user
\* under credentials that have auth and priv
C20_Witness ==
    /\ OtherUser
    /\ u_in.message.global_data.flags.auth
    /\ u_in.message.global_data.flags.priv
    /\ u_in.message.scoped_pdu.tag = "OctetString"
    /\ u_in.credentials.auth # None
    /\ u_in.credentials.priv # None
    /\ u_in.result.exc = "SnmpError"
    /\ u_in.calls = <<>>

\* generate_request_message has ended for V3 credentials with privacy and
\* without authentication, the engine being known to the LCD
PrivWithoutAuth ==
    /\ u_pc = "generated"
    /\ u_out.credentials.variant = "V3"
    /\ u_out.credentials.priv # None
    /\ u_out.credentials.auth = None
    /\ u_out.security_engine_id \in DOMAIN u_out.local_config

\* C21: for credentials with privacy and without authentication
\* generate_request_message raises UnsupportedSecurityLevel, encrypts nothing
\* and returns no message.
C21_PrivWithoutAuthIsUnsupported ==
    PrivWithoutAuth =>
        /\ u_out.result.exc = "UnsupportedSecurityLevel"
        /\ u_out.calls = <<>>

\* the message of the bytes that a discovery handed to the transport
DiscoverySent == Message_from_sequence(u_out.sent[1])

\* C22: send_discovery_message hands one message to the transport: a
\* GetRequest without varbinds, with empty engine id, user name, auth and priv
\* parameters and the flags (auth FALSE, priv FALSE, reportable TRUE); it
\* returns only for a response that carries the request id of the request
\* (SnmpError for any other), and the DiscoData it returns holds the engine
\* id, boots and time of the security parameters of the response.
C22_DiscoveryMessageAndResult ==
    /\ u_pc \in {"discovering", "discovered"} =>
          LET secparams == USMSecurityParameters_decode(DiscoverySent.security_parameters)
              pdu == DiscoverySent.scoped_pdu.value[1]
          IN  /\ Len(u_out.sent) = 1
              /\ pdu.tag = "GetRequest"
              /\ pdu.varbinds = <<>>
              /\ pdu.request_id = u_out.request_id
              /\ secparams.authoritative_engine_id = <<>>
              /\ secparams.user_name = <<>>
              /\ secparams.auth_params = <<>>
              /\ secparams.priv_params = <<>>
              /\ DiscoverySent.global_data.flags = V3Flags(FALSE, FALSE, TRUE)
    /\ u_pc = "discovered" =>
          LET response_msg == Message_from_sequence(u_wire.raw_response)
              secparams == USMSecurityParameters_decode(response_msg.security_parameters)
              response_id == response_msg.scoped_pdu.value[1].request_id
          IN  /\ response_id # u_out.request_id =>
                    u_in.result.exc = "SnmpError"
              /\ u_in.result.exc = "" =>
                    /\ response_id = u_out.request_id
                    /\ u_in.result.value.authoritative_engine_id =
                          secparams.authoritative_engine_id
                    /\ u_in.result.value.authoritative_engine_boots =
                          secparams.authoritative_engine_boots
                    /\ u_in.result.value.authoritative_engine_time =
                          secparams.authoritative_engine_time

\* C22 witness: the second discovery of the run has returned the data of
\* engine E2
C22_Witness ==
    /\ u_pc = "discovered"
    /\ u_in.result.exc = ""
    /\ u_in.result.value.authoritative_engine_id = "E2"
    /\ u_in.result.value.authoritative_engine_boots = MaxBoots
    /\ ncalls = 2

\* process_incoming_message has returned a message that was authenticated
Authenticated ==
    /\ u_pc = "processed"
    /\ u_in.result.exc = ""
    /\ u_in.message.global_data.flags.auth
    /\ Invoked(u_in.calls, "authenticate_incoming_message")

\* C23: once process_incoming_message has returned an authenticated message of
\* engine E, local_config[E] holds the boots and the time of the security
\* parameters of that message.
C23_LcdFollowsAuthenticatedResponses ==
    Authenticated =>
        LET secparams == USMSecurityParameters_decode(u_in.message.security_parameters)
            engine_id == secparams.authoritative_engine_id
        IN  /\ engine_id \in DOMAIN local_config
            /\ local_config[engine_id].authoritative_engine_boots =
                  secparams.authoritative_engine_boots
            /\ local_config[engine_id].authoritative_engine_time =
                  secparams.authoritative_engine_time

\* C24: a message that generate_request_message returns carries the engine
\* id it was asked for and the boots and the time that local_config held for
\* this engine when it was called; the call fails when local_config has no
\* entry for the engine, and it leaves local_config as it was (the message it
\* was given is a value: the call builds new messages with replace).
C24_RequestsCarryTheCachedTiming ==
    /\ [](u_pc = "generated" =>
            /\ u_out.security_engine_id \notin DOMAIN u_out.local_config =>
                  u_out.result.exc # ""
            /\ u_out.result.exc = "" =>
                  LET secparams == USMSecurityParameters_decode(
                                       u_out.result.value.security_parameters)
                      cached == u_out.local_config[u_out.security_engine_id]
                  IN  /\ secparams.authoritative_engine_id = u_out.security_engine_id
                      /\ secparams.authoritative_engine_boots =
                            cached.authoritative_engine_boots
                      /\ secparams.authoritative_engine_time =
                            cached.authoritative_engine_time)
    /\ [][(u_pc = "idle" /\ u_pc' = "generated") =>
            /\ local_config' = local_config
            /\ u_out'.local_config = local_config]_vars

\* C24 witness: a signed message carries the timing that the latest
\* set_engine_timing stored for engine E2
C24_Witness ==
    /\ u_pc = "generated"
    /\ u_out.result.exc = ""
    /\ u_out.security_engine_id = "E2"
    /\ u_out.credentials.auth # None
    /\ local_config["E2"].authoritative_engine_boots = MaxBoots
    /\ USMSecurityParameters_decode(
           u_out.result.value.security_parameters).authoritative_engine_boots = MaxBoots

-----------------------------------------------------------------------------
(* Properties of tasks that share a client *)

\* the tasks whose request is with the transport
Waiting == {t \in Tasks : tasks[t].pc = "sender"}

\* C25: a client serializes its requests: while the request of one task is
\* with the transport (the task has neither returned nor been cancelled), no
\* other task has sent its request, and so only the task that waits is
\* handed a response.
C25_RequestsAreSerialized ==
    /\ [](Cardinality(Waiting) <= 1)
    /\ [][\A t \in Tasks :
             (tasks[t].pc = "sender" /\ tasks'[t].pc = "returned")
                => Waiting = {t}]_vars

-----------------------------------------------------------------------------
(* Properties of the trap listener *)

\* the datagrams that are well formed: traps of a version that has a message
\* processing model
WellFormed(data) ==
    /\ Len(data) = 4
    /\ data[1] = "Sequence"
    /\ data[2] \in MpmIdentifiers
    /\ data[4].tag = "Trap"

\* C26: a datagram that cannot be decoded has no callback scheduled and
\* leaves the listener running; every well-formed datagram, whatever came
\* before it, has the callback scheduled once, with its PDU.
C26_BadDatagramsAreDropped ==
    /\ \A n \in DOMAIN l_received :
          LET scheduled == {i \in DOMAIN l_scheduled : l_scheduled[i].datagram = n}
          IN  IF WellFormed(l_received[n])
              THEN /\ Cardinality(scheduled) = 1
                   /\ \A i \in scheduled : l_scheduled[i].pdu = l_received[n][4]
              ELSE /\ scheduled = {}
                   /\ \E i \in DOMAIN l_errors : l_errors[i].datagram = n
    /\ Len(l_scheduled) + Len(l_errors) = Len(l_received)
    /\ l_received # <<>> => l_listening

\* C26 witness: the callback was scheduled for a trap that came after two
\* datagrams that could not be decoded
C26_Witness ==
    /\ Len(l_received) = 3
    /\ ~WellFormed(l_received[1])
    /\ ~WellFormed(l_received[2])
    /\ WellFormed(l_received[3])
    /\ l_scheduled = <<[datagram |-> 3, pdu |-> Trap("linkDown")]>>
    /\ Len(l_errors) = 2

-----------------------------------------------------------------------------
(* The walk as a lazy stream *)

\* C27: the consumer drives the walk: a fetch is issued only when the
\* consumer asks for a varbind and the generator has nothing left to yield
\* from the fetches before, the consumer receives one varbind per step, and
\* once it has stopped the walk no fetch is issued and nothing more is
\* received.
C27_ConsumerDrivesTheWalk ==
    /\ [](w_pc = "awaiting" => w_pending = <<>>)
    /\ [][w_nfetch' # w_nfetch =>
            /\ w_pc \in {"created", "awaiting", "yield"}
            /\ w_pending = <<>>
            /\ w_pending' = <<>>
            /\ w_out' = w_out
            /\ w_pc' = "awaiting"
            /\ w_nfetch' = w_nfetch + 1]_vars
    /\ [][w_out' # w_out =>
            /\ w_pc \in {"awaiting", "yield"}
            /\ w_pc' = "yield"
            /\ Len(w_out') = Len(w_out) + 1
            /\ SubSeq(w_out', 1, Len(w_out)) = w_out
            /\ w_pc = "yield" =>
                  (w_pending # <<>> /\ Last(w_out') = Head(w_pending))
            /\ w_nfetch' = w_nfetch]_vars
    /\ [][w_pc = "closed" =>
            /\ w_pc' = "closed"
            /\ w_nfetch' = w_nfetch
            /\ w_out' = w_out]_vars

\* C27 witness: the consumer has stopped a walk after two fetches, with a
\* varbind received and a root still unfinished
C27_Witness ==
    /\ w_pc = "closed"
    /\ w_nfetch = 2
    /\ w_out # <<>>
    /\ w_unfinished # <<>>
    /\ w_pending = <<>>

-----------------------------------------------------------------------------
(* Properties of bulk walks *)

\* the varbinds of a list
VarBindsOf(varbinds) == {varbinds[i] : i \in DOMAIN varbinds}

\* the walk of the state machine is the walk of walk_yields
WalkYieldsAgree ==
    (agent = "good" /\ w_pc = "done" /\ w_exc = "") =>
        w_out = walk_yields(mib, w_oids, w_fetcher, w_bulk)

\* C28: on a conformant agent a finished bulkwalk(oids, bulk_size) has yielded
\* the varbinds that multiwalk(oids) yields, each of them once.
C28_BulkwalkYieldsWhatMultiwalkYields ==
    (agent = "good" /\ w_fetcher = "bulk" /\ w_pc = "done") =>
        /\ VarBindsOf(w_out) = VarBindsOf(walk_yields(mib, w_oids, "getnext", 0))
        /\ Cardinality(VarBindsOf(w_out)) = Len(w_out)

-----------------------------------------------------------------------------
(* Properties of tables *)

\* the table of the state machine is the table of table_returns and
\* bulktable_returns
TablesAgree ==
    (t_result.op # "" /\ t_result.exc = "") =>
        t_result.as_table =
            IF t_call.op = "table" THEN table_returns(mib, t_call.oid)
            ELSE bulktable_returns(mib, t_call.oid, t_call.bulk_size)

\* C29: bulktable(oid) hands tablify the varbinds and the number of base
\* nodes table(oid) hands it, and returns the rows of table(oid).
C29_BulktableIsTableButForTheRequests ==
    (t_result.op = "bulktable" /\ t_result.exc = "") =>
        /\ t_result.tmp = walk_yields(mib, <<t_call.oid>>, "getnext", 0)
        /\ t_result.num_base_nodes = Len(t_call.oid)
        /\ t_result.as_table = table_returns(mib, t_call.oid)

\* the half of C29 that holds: the varbinds collected are those of table(oid)
C29_BulktableCollectsTheVarbindsOfTable ==
    (t_result.op = "bulktable" /\ t_result.exc = "") =>
        t_result.tmp = walk_yields(mib, <<t_call.oid>>, "getnext", 0)

-----------------------------------------------------------------------------
(* Walk boundary detection *)

\* the roots the fetch the generator waits for probes for
ProbedRoots ==
    IF w_nfetch = 1 THEN {w_oids[i] : i \in DOMAIN w_oids}
    ELSE {w_unfinished[i][1] : i \in DOMAIN w_unfinished}

\* the probe that fetch has sent for a root
ProbeOf(root) ==
    IF w_nfetch = 1 THEN root
    ELSE w_unfinished[CHOOSE i \in DOMAIN w_unfinished : w_unfinished[i][1] = root][2].oid

\* grouped_oids of a fetch that returned `got`
GroupedOids(got) ==
    IF w_nfetch = 1 THEN group_varbinds(got.value, w_oids, <<>>)
    ELSE group_varbinds(got.value, w_probes, w_oids)

\* the varbinds a root received
GroupOf(grouped_oids, root) ==
    IF HasKey(grouped_oids, root) THEN DictGet(grouped_oids, root) ELSE <<>>

\* a successful fetch leaves exactly the roots unfinished whose last OID lies
\* past the probe and below the root
BoundaryOfFetch(got) ==
    \A root \in ProbedRoots :
        LET group == GroupOf(GroupedOids(got), root)
        IN  (\E i \in DOMAIN w_unfinished' : w_unfinished'[i][1] = root)
                <=> /\ group # <<>>
                    /\ OidLess(ProbeOf(root), Last(group).oid)
                    /\ Contains(root, Last(group).oid)

\* a root that received an OID outside its tree is not unfinished afterwards
OutOfTreeEndsTheRoot(got) ==
    \A root \in ProbedRoots :
        LET group == GroupOf(GroupedOids(got), root)
        IN  (\E i \in DOMAIN group : ~Contains(root, group[i].oid))
                => ~\E i \in DOMAIN w_unfinished' : w_unfinished'[i][1] = root

\* C30: after each fetch a root stays unfinished if and only if its last OID
\* is greater than its probe and below the root; every fetch probes the last
\* OIDs of the unfinished roots (the roots on the first fetch); a root that
\* received an OID outside its tree is not probed again.
C30_BoundaryDetection ==
    /\ [][\A got \in FetcherOutcomes(w_probes, FetchRequestId) :
             (FetchEndedWith(got) /\ got.exc = "") =>
                 /\ BoundaryOfFetch(got)
                 /\ OutOfTreeEndsTheRoot(got)]_vars
    /\ [][w_nfetch' # w_nfetch =>
             w_probes' = IF w_nfetch = 0 THEN w_oids ELSE NextFetches(w_unfinished')]_vars
    /\ [][w_nfetch > 1 =>
             \A i \in DOMAIN w_unfinished' :
                 \E j \in DOMAIN w_unfinished : w_unfinished[j][1] = w_unfinished'[i][1]]_vars

\* the part of C30 that holds: where the device conforms or the fetcher is
\* multigetnext, which refuses an OID that is not past its probe
C30_BoundaryWhereSuccessorsAreChecked ==
    /\ [][\A got \in FetcherOutcomes(w_probes, FetchRequestId) :
             (FetchEndedWith(got) /\ got.exc = ""
                 /\ (agent = "good" \/ w_fetcher = "getnext")) =>
                     BoundaryOfFetch(got) /\ OutOfTreeEndsTheRoot(got)]_vars
    /\ [][w_nfetch' # w_nfetch =>
             w_probes' = IF w_nfetch = 0 THEN w_oids ELSE NextFetches(w_unfinished')]_vars
    /\ [][w_nfetch > 1 =>
             \A i \in DOMAIN w_unfinished' :
                 \E j \in DOMAIN w_unfinished : w_unfinished[j][1] = w_unfinished'[i][1]]_vars

\* a bulk walk of root 1 has probed 1.2 and was answered with 1.1: root 1 is
\* still unfinished
C30_StuckBehindTheProbe ==
    /\ w_fetcher = "bulk" /\ w_oids = << <<1>> >> /\ w_nfetch = 2
    /\ w_probes = << <<1, 2>> >>
    /\ w_unfinished = << << <<1>>, VarBind(<<1, 1>>, "a") >> >>

-----------------------------------------------------------------------------
(* The LCD of the config and the LCD of the MPM *)

\* C31: inside and outside reconfigure scopes the dict client.config.lcd is
\* the dict the client's MPM works on.
C31_ConfigLcdIsTheLcdOfTheMpm == config.lcd = mpm.lcd

\* the part of C31 that holds: outside every scope, and inside scopes that
\* did not replace the MPM, the two are the dict of the constructor
C31_SameLcdWhereTheMpmIsTheConstructors ==
    mpm.id = 0 => (config.lcd = 0 /\ mpm.lcd = 0)

-----------------------------------------------------------------------------
(* _send across a suspension in the transport *)

\* C32: a _send that has decoded its response decoded it with the
\* credentials and the MPM it had encoded its request with.
C32_DecodesWithWhatItEncodedWith ==
    \A t \in Tasks :
        tasks[t].pc = "returned" =>
            /\ tasks[t].decode_credentials = tasks[t].encode_credentials
            /\ tasks[t].decode_mpm = tasks[t].encode_mpm

\* the part of C32 that holds: the response is decoded with the credentials
\* and the MPM the client has when the transport returns
C32_DecodesWithTheCurrentOnes ==
    [][\A t \in Tasks :
          (tasks[t].pc = "sender" /\ tasks'[t].pc = "returned") =>
              /\ tasks'[t].decode_credentials = config.credentials
              /\ tasks'[t].decode_mpm = mpm]_vars

-----------------------------------------------------------------------------
(* Incoming messages without security *)

\* process_incoming_message has run on a message of the user with neither
\* flag set, under credentials without auth
NoAuthNoPrivIncoming ==
    /\ u_pc = "processed"
    /\ u_in.credentials.variant = "V3"
    /\ u_in.credentials.auth = None
    /\ ~u_in.message.global_data.flags.auth
    /\ ~u_in.message.global_data.flags.priv
    /\ USMSecurityParameters_decode(u_in.message.security_parameters).user_name
          = encode(u_in.credentials.username)

\* C33: under V3 credentials without auth a message of the user with
\* flags.auth and flags.priv unset is returned unchanged, no primitive of auth
\* or priv being invoked; authentication is invoked only under flags.auth.
C33_NoAuthNoPrivIsReturnedUnchanged ==
    /\ NoAuthNoPrivIncoming =>
          /\ u_in.result.exc = ""
          /\ u_in.result.value = u_in.message
          /\ u_in.calls = <<>>
    /\ (u_pc = "processed" /\ u_in.calls # <<>>) => u_in.message.global_data.flags.auth

\* the parts of C33 that hold: no primitive is invoked for such a message,
\* and none is invoked at all unless a flag is set
C33_NoPrimitiveWithoutAFlag ==
    /\ NoAuthNoPrivIncoming => u_in.calls = <<>>
    /\ (u_pc = "processed" /\ u_in.calls # <<>>) =>
          \/ u_in.message.global_data.flags.auth
          \/ u_in.message.global_data.flags.priv
    /\ (u_pc = "processed" /\ u_in.calls # <<>>
            /\ Head(u_in.calls) = "authenticate_incoming_message")
          => u_in.message.global_data.flags.auth

\* every such call ends in AttributeError
C33_NoAuthNoPrivEndsInAttributeError ==
    NoAuthNoPrivIncoming => u_in.result.exc = "AttributeError"

-----------------------------------------------------------------------------
(* Outcomes of getnext *)

\* getnext has ended
GetnextEnded == done.op = "getnext" /\ done.answered

\* the single probe was answered with EndOfMibView under the request id
AnsweredWithEndOfMibView ==
    /\ GetnextEnded
    /\ done.sent.exc = ""
    /\ Len(done.response.varbinds) = 1
    /\ done.response.varbinds[1].value = EndOfMibView

\* C34: getnext(oid) returns a VarBind whose OID is greater than oid or fails
\* with NoSuchOID, FaultySNMPImplementation or SnmpError, also when the probe
\* is answered with EndOfMibView.
C34_GetnextHasTypedOutcomes ==
    GetnextEnded =>
        IF done.result.exc = ""
        THEN OidLess(done.args[1], done.result.value.oid)
        ELSE done.result.exc \in {"NoSuchOID", "FaultySNMPImplementation", "SnmpError"}

\* the part of C34 that holds: every other answer has a typed outcome, and
\* EndOfMibView always ends in IndexError
C34_TypedUnlessEndOfMibView ==
    /\ (GetnextEnded /\ ~AnsweredWithEndOfMibView) =>
          IF done.result.exc = ""
          THEN OidLess(done.args[1], done.result.value.oid)
          ELSE done.result.exc \in {"FaultySNMPImplementation", "SnmpError"}
    /\ AnsweredWithEndOfMibView => done.result.exc = "IndexError"

====
